---- MODULE Spec2Model ----
(***************************************************************************)
(* A model of one run of ListeriaPage (src/src/listeria_page.rs): entity   *)
(* loading, the result model and the six patch stages of patch_results,    *)
(* over a small fixed wikidata/wiki fixture.                               *)
(***************************************************************************)
EXTENDS Integers, Sequences, FiniteSets, TLC

VARIABLES
    wiki,              \* ListeriaPage.wiki
    links,             \* ListeriaPage.links
    sort,              \* params.sort
    sort_ascending,    \* params.sort_ascending
    one_row_per_item,  \* params.one_row_per_item
    columns,           \* ListeriaPage.columns (the ColumnType of each column)
    sparql_json,       \* the query-result document run_query hands to parse_sparql
    sparql_rows,       \* ListeriaPage.sparql_rows
    sparql_first_variable,  \* ListeriaPage.sparql_first_variable, <<>> for None
    entities,          \* ids held by ListeriaPage.entities
    results,           \* ListeriaPage.results
    local_page_cache,  \* ListeriaPage.local_page_cache
    shadow_files,      \* ListeriaPage.shadow_files
    pc,                \* the step of run() that comes next
    outcome,           \* what run() has returned so far
    stages,            \* history: the patch stages started, in order
    failed,            \* history: the patch stages that returned Err
    pre,               \* history: results/shadow_files/cache before the last step
    file_answers,      \* the wiki's answer for each file name asked so far
    checked,           \* history: file names asked by the last shadow stage
    lookups,           \* history: titles asked by cache_local_page_exists
    title_failed,      \* history: titles whose lookup failed
    shadow_runs,       \* history: times patch_remove_shadow_files has run
    arg,               \* the argument of a function called on its own
    ret                \* what that function has returned

vars == <<wiki, links, sort, sort_ascending, one_row_per_item, columns,
          sparql_rows, entities, results, local_page_cache, shadow_files,
          pc, outcome, stages, failed, pre, file_answers, checked, lookups,
          title_failed, shadow_runs, sparql_json, sparql_first_variable,
          arg, ret>>

-----------------------------------------------------------------------------
(* Bounds of the model *)

\* longest list of binding rows drawn for a pipeline run
MaxRows == 2
\* longest list of binding rows drawn for a sort run
MaxSortRows == 3
\* longest list of binding rows of a query-result document
MaxDocRows == 2
\* longest column text drawn character by character
MaxColumnLen == 3
\* most parts of a cell handed to the renderer
MaxParts == 2
\* most invocations of run() on one page object
MaxRuns == 2

-----------------------------------------------------------------------------
(* Generic helpers *)

Range(s) == {s[i] : i \in 1..Len(s)}

SeqsUpTo(S, n) == UNION {[1..k -> S] : k \in 0..n}

RECURSIVE Flatten(_)
Flatten(ss) == IF ss = <<>> THEN <<>> ELSE Head(ss) \o Flatten(Tail(ss))

\* Vec::reverse
Reverse(s) == [i \in 1..Len(s) |-> s[Len(s) + 1 - i]]

\* iter().filter(keep): the elements kept, in order
RECURSIVE FilterSeq(_, _)
FilterSeq(s, keepSet) ==
    IF s = <<>> THEN <<>>
    ELSE (IF Head(s) \in keepSet THEN <<Head(s)>> ELSE <<>>)
         \o FilterSeq(Tail(s), keepSet)

\* Vec::dedup on a sorted vector: drops consecutive repeats
RECURSIVE Dedup(_)
Dedup(s) ==
    IF Len(s) < 2 THEN s
    ELSE IF s[1] = s[2] THEN Dedup(Tail(s))
    ELSE <<s[1]>> \o Dedup(Tail(s))

\* the order-preserving de-duplication of get_ids_from_sparql_rows
RECURSIVE PushNew(_, _)
PushNew(acc, s) ==
    IF s = <<>> THEN acc
    ELSE PushNew(IF Head(s) \in Range(acc) THEN acc ELSE Append(acc, Head(s)),
                 Tail(s))

-----------------------------------------------------------------------------
(* Strings: the text of every string of the fixture, as its characters *)

Chars(s) ==
    CASE s = ""      -> <<>>
      [] s = "a"     -> <<"a">>
      [] s = "c"     -> <<"c">>
      [] s = "a c"   -> <<"a", " ", "c">>
      [] s = "b a"   -> <<"b", " ", "a">>
      [] s = "B a"   -> <<"B", " ", "a">>
      [] s = "A c"   -> <<"A", " ", "c">>
      [] s = "D"     -> <<"D">>
      [] s = "9"     -> <<"9">>
      [] s = "10"    -> <<"1", "0">>
      [] s = "+1999" -> <<"+", "1", "9", "9", "9">>
      [] s = "+2001" -> <<"+", "2", "0", "0", "1">>
      [] s = "+2020" -> <<"+", "2", "0", "2", "0">>
      [] s = "-0500" -> <<"-", "0", "5", "0", "0">>
      [] s = "1999"  -> <<"1", "9", "9", "9">>
      [] s = "2001"  -> <<"2", "0", "0", "1">>
      [] s = "2020"  -> <<"2", "0", "2", "0">>
      [] s = "F1"    -> <<"F", "1">>
      [] s = "F2"    -> <<"F", "2">>
      [] s = "P1"    -> <<"P", "1">>
      [] s = "P2"    -> <<"P", "2">>
      [] s = "P3"    -> <<"P", "3">>
      [] s = "P4"    -> <<"P", "4">>
      [] s = "P5"    -> <<"P", "5">>
      [] s = "P6"    -> <<"P", "6">>
      [] s = "Q1"    -> <<"Q", "1">>
      [] s = "Q2"    -> <<"Q", "2">>
      [] s = "Q3"    -> <<"Q", "3">>
      [] s = "Q4"    -> <<"Q", "4">>
      [] s = "Q5"    -> <<"Q", "5">>

Strings ==
    {"", "a", "c", "a c", "b a", "B a", "A c", "D", "9", "10", "+1999",
     "+2001", "+2020", "-0500", "1999", "2001", "2020", "F1", "F2", "P1", "P2", "P3", "P4", "P5",
     "P6", "Q1", "Q2", "Q3", "Q4", "Q5"}

\* the string with the given characters
Str(cs) == CHOOSE s \in Strings : Chars(s) = cs

\* the byte of a character
Byte(c) ==
    CASE c = " " -> 32 [] c = "+" -> 43 [] c = "-" -> 45
      [] c = "0" -> 48 [] c = "1" -> 49 [] c = "2" -> 50 [] c = "3" -> 51
      [] c = "4" -> 52 [] c = "5" -> 53 [] c = "6" -> 54 [] c = "9" -> 57
      [] c = "A" -> 65 [] c = "B" -> 66 [] c = "D" -> 68 [] c = "F" -> 70
      [] c = "P" -> 80 [] c = "Q" -> 81
      [] c = "a" -> 97 [] c = "b" -> 98 [] c = "c" -> 99

\* str::cmp is Less: byte-wise lexicographic order
RECURSIVE LexLess(_, _)
LexLess(x, y) ==
    IF y = <<>> THEN FALSE
    ELSE IF x = <<>> THEN TRUE
    ELSE IF Byte(Head(x)) # Byte(Head(y)) THEN Byte(Head(x)) < Byte(Head(y))
    ELSE LexLess(Tail(x), Tail(y))

StrLess(a, b) == LexLess(Chars(a), Chars(b))

\* where x goes in the sorted s: before the first element greater than x
InsertPos(s, x, Lt(_, _)) ==
    IF \E i \in 1..Len(s) : Lt(x, s[i])
    THEN CHOOSE i \in 1..Len(s) :
            Lt(x, s[i]) /\ \A j \in 1..(i - 1) : ~Lt(x, s[j])
    ELSE Len(s) + 1

\* a stable sort (slice::sort_by, slice::sort): equal elements keep their order
SortBy(s, Lt(_, _)) ==
    LET ins(acc, x) ==
            LET p == InsertPos(acc, x, Lt)
            IN SubSeq(acc, 1, p - 1) \o <<x>> \o SubSeq(acc, p, Len(acc))
        f[n \in 0..Len(s)] == IF n = 0 THEN <<>> ELSE ins(f[n - 1], s[n])
    IN f[Len(s)]

\* Vec<String>::sort
SortStrings(s) == SortBy(s, StrLess)

-----------------------------------------------------------------------------
(* The fixture: what wikidata and the wikis hold *)

Items == {"Q1", "Q2", "Q3", "Q4", "Q5"}
Props == {"P1", "P2", "P3", "P4", "P5", "P6"}
Files == {"F1", "F2"}
Wikis == {"enwiki", "dewiki"}

\* the entities wikidata can deliver; Q5 does not exist there
Available == {"Q1", "Q2", "Q3", "Q4"} \cup Props

\* Entity::label_in_locale, as a list of zero or one label
label_in_locale(id, lang) ==
    CASE id = "Q1" /\ lang = "en" -> <<"b a">>
      [] id = "Q2" /\ lang = "en" -> <<"a c">>
      [] id = "Q2" /\ lang = "de" -> <<"A c">>
      [] id = "Q3" /\ lang = "en" -> <<"a c">>
      [] id = "P5" /\ lang = "en" -> <<"a">>
      [] id = "P6" /\ lang = "en" -> <<"c">>
      [] OTHER -> <<>>

\* Entity::description_in_locale, as a list of zero or one description
description_in_locale(id, lang) ==
    IF id = "Q1" /\ lang = "en" THEN <<"a">> ELSE <<>>

\* Entity::sitelinks
sitelinks(id) ==
    CASE id = "Q1" -> <<[site |-> "dewiki", title |-> "B a"],
                        [site |-> "enwiki", title |-> "B a"]>>
      [] id = "Q2" -> <<[site |-> "dewiki", title |-> "A c"]>>
      [] id = "Q4" -> <<[site |-> "enwiki", title |-> "D"]>>
      [] OTHER -> <<>>

\* PropertyEntity::datatype
PropertyDatatype(p) ==
    CASE p = "P1" -> "WikibaseItem"
      [] p = "P2" -> "Quantity"
      [] p = "P3" -> "Time"
      [] p = "P4" -> "String"
      [] p = "P5" -> "CommonsMedia"
      [] p = "P6" -> "WikibaseItem"

ValueKind(datatype) ==
    CASE datatype = "WikibaseItem" -> "Entity"
      [] datatype = "Quantity" -> "Quantity"
      [] datatype = "Time" -> "Time"
      [] OTHER -> "StringValue"

Snak(p, value) ==
    [property |-> p, datatype |-> PropertyDatatype(p),
     kind |-> ValueKind(PropertyDatatype(p)), value |-> value]

Statement(p, value, quals) == [main |-> Snak(p, value), qualifiers |-> quals]

\* Entity::claims
claims(id) ==
    CASE id = "Q1" -> <<Statement("P1", "Q2", <<>>),
                        Statement("P2", "9", <<>>),
                        Statement("P3", "+2001", <<>>),
                        Statement("P4", "a c", <<>>),
                        Statement("P5", "F1", <<Snak("P6", "Q2")>>)>>
      [] id = "Q2" -> <<Statement("P1", "Q4", <<>>),
                        Statement("P1", "Q1", <<>>),
                        Statement("P2", "10", <<>>),
                        Statement("P3", "+1999", <<>>),
                        Statement("P4", "B a", <<>>),
                        Statement("P5", "F2", <<>>)>>
      [] id = "Q3" -> <<Statement("P1", "Q1", <<>>),
                        Statement("P2", "9", <<>>),
                        Statement("P3", "+2020", <<>>),
                        Statement("P4", "a", <<>>),
                        Statement("P5", "F1", <<Snak("P6", "Q1")>>),
                        Statement("P5", "F2", <<Snak("P6", "Q3")>>)>>
      [] id = "Q4" -> <<Statement("P3", "-0500", <<>>)>>
      [] OTHER -> <<>>

\* Entity::claims_with_property
claims_with_property(id, p) ==
    LET cs == claims(id)
        keep == {cs[i] : i \in {j \in 1..Len(cs) : cs[j].main.property = p}}
    IN FilterSeq(cs, keep)

-----------------------------------------------------------------------------
(* lib.rs: ResultCellPart, ResultCell, ResultRow, SparqlValue, ColumnType *)

Part(t, a, b, v) == [t |-> t, a |-> a, b |-> b, v |-> v]

Number == Part("Number", "", "", <<>>)
Entity(id, try_localize) ==
    Part("Entity", id, IF try_localize THEN "true" ELSE "false", <<>>)
LocalLink(page, label) == Part("LocalLink", page, label, <<>>)
Time(s) == Part("Time", s, "", <<>>)
File(f) == Part("File", f, "", <<>>)
Uri(u) == Part("Uri", u, "", <<>>)
ExternalId(p, id) == Part("ExternalId", p, id, <<>>)
Text(s) == Part("Text", s, "", <<>>)
SnakList(v) == Part("SnakList", "", "", v)

SparqlValue(t, a) == [t |-> t, a |-> a]

ColumnType(t, a, b, c) == [t |-> t, a |-> a, b |-> b, c |-> c]

\* ResultCellPart::from_sparql_value
from_sparql_value(x) ==
    CASE x.t = "Entity" -> Entity(x.a, TRUE)
      [] x.t = "File" -> File(x.a)
      [] x.t = "Uri" -> Uri(x.a)
      [] x.t = "Time" -> Text(x.a)
      [] x.t = "Literal" -> Text(x.a)

\* ResultCellPart::reduce_time at precision 9 (year), the precision of the fixture
reduce_time(s) ==
    IF Chars(s) # <<>> /\ Head(Chars(s)) = "+" THEN Str(Tail(Chars(s))) ELSE s

\* ResultCellPart::from_snak
from_snak(snak) ==
    CASE snak.kind = "Entity" -> Entity(snak.value, TRUE)
      [] snak.kind = "StringValue" ->
            (CASE snak.datatype = "CommonsMedia" -> File(snak.value)
               [] snak.datatype = "ExternalId" ->
                      ExternalId(snak.property, snak.value)
               [] OTHER -> Text(snak.value))
      [] snak.kind = "Quantity" -> Text(snak.value)
      [] snak.kind = "Time" -> Time(reduce_time(snak.value))

\* ResultRow::new
NewRow(entity_id, cells) ==
    [entity_id |-> entity_id, cells |-> cells, section |-> 0, sortkey |-> ""]

-----------------------------------------------------------------------------
(* listeria_page.rs: the result model *)

language == "en"
\* get_var_name, lines 633-638, where the variable is Some
get_var_name == sparql_first_variable[1]

\* HashMap::get, as a list of zero or one value
Get(row, k) == IF k \in DOMAIN row THEN <<row[k]>> ELSE <<>>

\* the first sitelink of the entity on the wiki, as a list of zero or one title
LocalPage(id, w) ==
    LET sl == sitelinks(id)
        hits == {i \in 1..Len(sl) : sl[i].site = w}
    IN IF hits = {} THEN <<>>
       ELSE <<sl[CHOOSE i \in hits : \A j \in hits : i <= j].title>>

get_local_entity_label(id, ents) ==
    IF id \in ents THEN label_in_locale(id, language) ELSE <<>>

\* the ids get_ids_from_sparql_rows takes from the rows, in first-seen order
RowIds(rows) ==
    LET ids_tmp == Flatten([i \in 1..Len(rows) |->
                       LET g == Get(rows[i], get_var_name)
                       IN IF g # <<>> /\ g[1].t = "Entity"
                          THEN <<g[1].a>> ELSE <<>>])
    IN PushNew(<<>>, ids_tmp)

\* the ids get_ids_from_sparql_rows takes from the column headers
ColumnIds(cols) ==
    Flatten([i \in 1..Len(cols) |->
        CASE cols[i].t = "Property" -> <<cols[i].a>>
          [] cols[i].t = "PropertyQualifier" -> <<cols[i].a, cols[i].b>>
          [] cols[i].t = "PropertyQualifierValue" ->
                 <<cols[i].a, cols[i].b, cols[i].c>>
          [] OTHER -> <<>>])

get_ids_from_sparql_rows(rows, cols) == RowIds(rows) \o ColumnIds(cols)

get_parts_p_p(statement, property) ==
    Flatten([i \in 1..Len(statement.qualifiers) |->
        IF statement.qualifiers[i].property = property
        THEN <<SnakList(<<from_snak(statement.main),
                          from_snak(statement.qualifiers[i])>>)>>
        ELSE <<>>])

get_result_cell(entity_id, rows, col, ents, w) ==
    LET loaded == entity_id \in ents
    IN CASE col.t = "Item" -> <<Entity(entity_id, TRUE)>>
         [] col.t = "Description" ->
              IF loaded /\ description_in_locale(entity_id, language) # <<>>
              THEN <<Text(description_in_locale(entity_id, language)[1])>>
              ELSE <<>>
         [] col.t = "Field" ->
              Flatten([i \in 1..Len(rows) |->
                  IF Get(rows[i], col.a) # <<>>
                  THEN <<from_sparql_value(Get(rows[i], col.a)[1])>>
                  ELSE <<>>])
         [] col.t = "Property" ->
              IF loaded
              THEN LET cs == claims_with_property(entity_id, col.a)
                   IN [i \in 1..Len(cs) |-> from_snak(cs[i].main)]
              ELSE <<>>
         [] col.t = "PropertyQualifier" ->
              IF loaded
              THEN LET cs == claims_with_property(entity_id, col.a)
                   IN Flatten([i \in 1..Len(cs) |-> get_parts_p_p(cs[i], col.b)])
              ELSE <<>>
         [] col.t = "LabelLang" ->
              IF ~loaded THEN <<>>
              ELSE IF label_in_locale(entity_id, col.a) # <<>>
              THEN <<Text(label_in_locale(entity_id, col.a)[1])>>
              ELSE IF label_in_locale(entity_id, language) # <<>>
              THEN <<Text(label_in_locale(entity_id, language)[1])>>
              ELSE <<>>
         [] col.t = "Label" ->
              IF ~loaded THEN <<>>
              ELSE LET l == label_in_locale(entity_id, language)
                       label == IF l # <<>> THEN l[1] ELSE entity_id
                       local_page == LocalPage(entity_id, w)
                   IN IF local_page # <<>>
                      THEN <<LocalLink(local_page[1], label)>>
                      ELSE <<Entity(entity_id, TRUE)>>
         [] col.t = "Number" -> <<Number>>
         [] OTHER -> <<>>

\* get_result_row building the row whether the entity is in the store or not
get_result_row_any_store(entity_id, rows, cols, ents, w, lt) ==
    <<NewRow(entity_id,
             [c \in 1..Len(cols) |->
                 get_result_cell(entity_id, rows, cols[c], ents, w)])>>

\* Some(row) as <<row>>, None as <<>>
get_result_row(entity_id, rows, cols, ents, w, lt) ==
    IF lt = "Local" /\ entity_id \notin ents THEN <<>>
    ELSE <<NewRow(entity_id,
                  [c \in 1..Len(cols) |->
                      get_result_cell(entity_id, rows, cols[c], ents, w)])>>

\* the rows whose first variable is bound to the entity id
RowsOf(rows, id) ==
    LET keep == {rows[i] : i \in {j \in 1..Len(rows) :
                    LET g == Get(rows[j], get_var_name)
                    IN g # <<>> /\ g[1].t = "Entity" /\ g[1].a = id}}
    IN FilterSeq(rows, keep)

\* get_results taking the branch of one row per entity whatever the mode is
get_results_grouped(rows, cols, ents, w, lt, one_row) ==
    LET ids == get_ids_from_sparql_rows(rows, cols)
    IN Flatten([i \in 1..Len(ids) |->
           IF RowsOf(rows, ids[i]) # <<>>
           THEN get_result_row(ids[i], RowsOf(rows, ids[i]), cols, ents, w, lt)
           ELSE <<>>])

get_results(rows, cols, ents, w, lt, one_row) ==
    IF one_row
    THEN LET ids == get_ids_from_sparql_rows(rows, cols)
         IN Flatten([i \in 1..Len(ids) |->
                IF RowsOf(rows, ids[i]) # <<>>
                THEN get_result_row(ids[i], RowsOf(rows, ids[i]), cols, ents, w, lt)
                ELSE <<>>])
    ELSE Flatten([i \in 1..Len(rows) |->
             LET g == Get(rows[i], get_var_name)
             IN IF g # <<>> /\ g[1].t = "Entity"
                THEN get_result_row(g[1].a, <<rows[i]>>, cols, ents, w, lt)
                ELSE <<>>])

-----------------------------------------------------------------------------
(* listeria_page.rs: the patch stages, as functions of the page's fields *)

LinksTypes == {"All", "Local", "Red", "RedOnly", "Text", "Reasonator"}

SortMode(t, a) == [t |-> t, a |-> a]
SortNone == SortMode("None", "")

\* line 129
wikis_to_check_for_shadow_images == {"enwiki"}

\* EntityContainer::load_entities when it succeeds: what exists is then held
load_items(ids, ents) == ents \cup (Range(ids) \cap Available)

RECURSIVE gather_entities_and_external_properties(_)
gather_entities_and_external_properties(parts) ==
    IF parts = <<>> THEN <<>>
    ELSE LET part == Head(parts)
             here == CASE part.t = "Entity" /\ part.b = "true" -> <<part.a>>
                       [] part.t = "ExternalId" -> <<part.a>>
                       [] part.t = "SnakList" ->
                              gather_entities_and_external_properties(part.v)
                       [] OTHER -> <<>>
         IN here \o gather_entities_and_external_properties(Tail(parts))

\* the parts of all cells of all rows, cell by cell
AllCells(rows) == Flatten([r \in 1..Len(rows) |-> rows[r].cells])

\* the ids gather_and_load_items hands to its first load_items
GatherIds(rows, sm) ==
    Flatten([c \in 1..Len(AllCells(rows)) |->
        gather_entities_and_external_properties(AllCells(rows)[c])])
    \o (IF sm.t = "Property" THEN <<sm.a>> ELSE <<>>)

\* the ids gather_and_load_items_sort hands to load_items
GatherSortIds(rows, sm, ents) ==
    IF sm.t # "Property" THEN <<>>
    ELSE Flatten([r \in 1..Len(rows) |->
            IF rows[r].entity_id \notin ents THEN <<>>
            ELSE LET cs == claims_with_property(rows[r].entity_id, sm.a)
                 IN Flatten([i \in 1..Len(cs) |->
                        IF cs[i].main.datatype = "WikibaseItem"
                           /\ cs[i].main.kind = "Entity"
                        THEN <<cs[i].main.value>> ELSE <<>>])])

\* Some(part) as <<part>>, None as <<>>
entity_to_local_link(item, ents, w) ==
    IF item \notin ents THEN <<>>
    ELSE IF LocalPage(item, w) = <<>> THEN <<>>
    ELSE LET page == LocalPage(item, w)[1]
             l == get_local_entity_label(item, ents)
         IN <<LocalLink(page, IF l # <<>> THEN l[1] ELSE page)>>

\* localize_item_links_in_parts not descending into a SnakList
localize_item_links_in_parts_flat(parts, ents, w) ==
    [i \in 1..Len(parts) |->
        IF parts[i].t = "Entity" /\ parts[i].b = "true"
           /\ entity_to_local_link(parts[i].a, ents, w) # <<>>
        THEN entity_to_local_link(parts[i].a, ents, w)[1]
        ELSE parts[i]]

RECURSIVE localize_item_links_in_parts(_, _, _)
localize_item_links_in_parts(parts, ents, w) ==
    [i \in 1..Len(parts) |->
        CASE parts[i].t = "Entity" /\ parts[i].b = "true" ->
                 IF entity_to_local_link(parts[i].a, ents, w) # <<>>
                 THEN entity_to_local_link(parts[i].a, ents, w)[1]
                 ELSE parts[i]
          [] parts[i].t = "SnakList" ->
                 SnakList(localize_item_links_in_parts(parts[i].v, ents, w))
          [] OTHER -> parts[i]]

patch_items_to_local_links(rows, ents, w) ==
    [r \in 1..Len(rows) |->
        [entity_id |-> rows[r].entity_id,
         cells |-> [c \in 1..Len(rows[r].cells) |->
                       localize_item_links_in_parts(rows[r].cells[c], ents, w)],
         section |-> rows[r].section,
         sortkey |-> rows[r].sortkey]]

\* whether the filter closure of patch_redlinks_only unwraps None on some row
RedlinksOnlyPanics(rows, ents) ==
    \E r \in 1..Len(rows) : rows[r].entity_id \notin ents

\* the rows patch_redlinks_only keeps (every row's entity is held)
patch_redlinks_only(rows, w) ==
    LET keep == {rows[r] : r \in {i \in 1..Len(rows) :
                    LocalPage(rows[i].entity_id, w) = <<>>}}
    IN FilterSeq(rows, keep)

\* the ids patch_redlinks collects: the Entity parts of the cells
RedlinkIds(rows) ==
    LET cs == AllCells(rows)
        ids == Flatten([c \in 1..Len(cs) |->
                   Flatten([i \in 1..Len(cs[c]) |->
                       IF cs[c][i].t = "Entity" THEN <<cs[c][i].a>> ELSE <<>>])])
    IN Dedup(SortStrings(ids))

\* the labels patch_redlinks asks the wiki about, in the order asked
RedlinkLabels(rows, ents) ==
    LET ids == RedlinkIds(rows)
        labels == Flatten([i \in 1..Len(ids) |->
                      get_local_entity_label(ids[i], ents)])
    IN Dedup(SortStrings(labels))

\* the answers of the wiki to a title query
TitleAnswers == {"exists", "missing", "nopages", "fail"}

\* cache_local_page_exists for one page under one answer
cache_local_page_exists(cache, page, answer) ==
    IF answer = "fail" THEN cache
    ELSE [t \in DOMAIN cache \cup {page} |->
             IF t = page THEN answer = "exists" ELSE cache[t]]

RECURSIVE CacheAll(_, _, _)
CacheAll(cache, labels, ans) ==
    IF labels = <<>> THEN cache
    ELSE CacheAll(cache_local_page_exists(cache, Head(labels), ans[Head(labels)]),
                  Tail(labels), ans)

local_page_exists(cache, page) ==
    IF page \in DOMAIN cache THEN cache[page] ELSE FALSE

\* the answers of the wiki to an imageinfo query
FileAnswers == {"shared", "local", "fail"}

\* lines 843-859: Err gives {} and no pages object
could_be_local(answer) ==
    CASE answer = "fail" -> TRUE
      [] answer = "shared" -> FALSE
      [] answer = "local" -> TRUE

\* lines 816-830
files_to_check(rows) ==
    LET cs == AllCells(rows)
        files == Flatten([c \in 1..Len(cs) |->
                     Flatten([i \in 1..Len(cs[c]) |->
                         IF cs[c][i].t = "File" THEN <<cs[c][i].a>> ELSE <<>>])])
    IN Dedup(SortStrings(files))

\* lines 832-866
ShadowFilesFound(files, ans) ==
    LET hit == {files[i] : i \in {j \in 1..Len(files) : could_be_local(ans[files[j]])}}
    IN SortStrings(FilterSeq(files, hit))

\* lines 870-882 dropping a cell that is left without parts
RemoveShadowFiles_dropping_empty_cells(rows, shadow) ==
    [r \in 1..Len(rows) |->
        [rows[r] EXCEPT !.cells =
            LET cells ==
                    [c \in 1..Len(rows[r].cells) |->
                        LET parts == rows[r].cells[c]
                            keep == {parts[i] : i \in {j \in 1..Len(parts) :
                                        ~(parts[j].t = "File"
                                          /\ parts[j].a \in Range(shadow))}}
                        IN FilterSeq(parts, keep)]
            IN FilterSeq(cells, Range(cells) \ {<<>>})]]

\* lines 870-882
RemoveShadowFiles(rows, shadow) ==
    [r \in 1..Len(rows) |->
        [rows[r] EXCEPT !.cells =
            [c \in 1..Len(rows[r].cells) |->
                LET parts == rows[r].cells[c]
                    keep == {parts[i] : i \in {j \in 1..Len(parts) :
                                ~(parts[j].t = "File" /\ parts[j].a \in Range(shadow))}}
                IN FilterSeq(parts, keep)]]]

get_datatype_for_property(prop, ents) ==
    IF prop \in ents /\ prop \in Props THEN PropertyDatatype(prop) ELSE "String"

-----------------------------------------------------------------------------
(* The sort engine.  ResultRow (result_row.rs) is not among the sources:   *)
(* its sortkeys and its comparison follow section 4.5 of the specification *)

\* the text after the last whitespace character
LastToken(cs) ==
    LET sp == {i \in 1..Len(cs) : cs[i] = " "}
    IN IF sp = {} THEN cs
       ELSE SubSeq(cs, (CHOOSE i \in sp : \A j \in sp : j <= i) + 1, Len(cs))

get_sortkey_label(row, ents) ==
    LET l == get_local_entity_label(row.entity_id, ents)
    IN IF l # <<>> THEN l[1] ELSE ""

get_sortkey_family_name(row, ents) ==
    LET l == get_local_entity_label(row.entity_id, ents)
    IN IF l # <<>> THEN Str(LastToken(Chars(l[1]))) ELSE ""

\* first claim wins
get_sortkey_prop(row, prop, ents, datatype) ==
    IF row.entity_id \notin ents THEN ""
    ELSE LET cs == claims_with_property(row.entity_id, prop)
         IN IF cs = <<>> THEN ""
            ELSE IF datatype = "WikibaseItem"
            THEN LET l == get_local_entity_label(cs[1].main.value, ents)
                 IN IF l # <<>> THEN l[1] ELSE ""
            ELSE cs[1].main.value

\* the number written by a string of digits
RECURSIVE Num(_)
Num(cs) == IF cs = <<>> THEN 0 ELSE 10 * Num(SubSeq(cs, 1, Len(cs) - 1))
                                     + (Byte(cs[Len(cs)]) - 48)

\* the point in time written by a signed year
Chrono(cs) ==
    IF Head(cs) = "-" THEN 0 - Num(Tail(cs))
    ELSE IF Head(cs) = "+" THEN Num(Tail(cs)) ELSE Num(cs)

\* ResultRow::compare_to is Less; a row lacking a sortkey sorts first
compare_to(a, b, datatype) ==
    IF b.sortkey = "" THEN FALSE
    ELSE IF a.sortkey = "" THEN TRUE
    ELSE CASE datatype = "Quantity" ->
                  Num(Chars(a.sortkey)) < Num(Chars(b.sortkey))
           [] datatype = "Time" ->
                  Chrono(Chars(a.sortkey)) < Chrono(Chars(b.sortkey))
           [] OTHER -> StrLess(a.sortkey, b.sortkey)

\* lines 977-1000: the sortkey of each row, <<>> under SortMode::None
SortKeys(rows, sm, ents) ==
    CASE sm.t = "Label" ->
             [r \in 1..Len(rows) |-> get_sortkey_label(rows[r], ents)]
      [] sm.t = "FamilyName" ->
             [r \in 1..Len(rows) |-> get_sortkey_family_name(rows[r], ents)]
      [] sm.t = "Property" ->
             [r \in 1..Len(rows) |->
                 get_sortkey_prop(rows[r], sm.a, ents,
                                  get_datatype_for_property(sm.a, ents))]
      [] OTHER -> <<>>

\* the datatype patch_sort_results compares under
SortDatatype(sm, ents) ==
    IF sm.t = "Property" THEN get_datatype_for_property(sm.a, ents) ELSE "String"

\* lines 1006-1009
set_sortkeys(rows, keys) ==
    [r \in 1..Len(rows) |-> [rows[r] EXCEPT !.sortkey = keys[r]]]

\* sort_by placing rows of equal key in the reverse of their input order
SortRows_unstable(rows, datatype) ==
    LET lt(a, b) == compare_to(a, b, datatype) IN SortBy(Reverse(rows), lt)

\* line 1011
SortRows(rows, datatype) ==
    LET lt(a, b) == compare_to(a, b, datatype) IN SortBy(rows, lt)

\* patch_sort_results reversing under SortMode::None too
patch_sort_results_reverse_always(rows, sm, asc, ents) ==
    LET sorted == IF sm.t = "None" THEN rows
                  ELSE SortRows(set_sortkeys(rows, SortKeys(rows, sm, ents)),
                                SortDatatype(sm, ents))
    IN IF ~asc THEN Reverse(sorted) ELSE sorted

\* patch_sort_results sorting stably under the reversed comparison
patch_sort_results_stable_desc(rows, sm, asc, ents) ==
    IF sm.t = "None" THEN rows
    ELSE LET keyed == set_sortkeys(rows, SortKeys(rows, sm, ents))
             gt(a, b) == compare_to(b, a, SortDatatype(sm, ents))
         IN IF ~asc THEN SortBy(keyed, gt)
            ELSE SortRows(keyed, SortDatatype(sm, ents))

\* patch_sort_results without the return of line 999: under SortMode::None
\* the entity id is written as the sortkey
patch_sort_results_keys_under_none(rows, sm, asc, ents) ==
    LET keys == IF sm.t = "None" THEN [r \in 1..Len(rows) |-> rows[r].entity_id]
                ELSE SortKeys(rows, sm, ents)
        sorted == IF sm.t = "None" THEN set_sortkeys(rows, keys)
                  ELSE SortRows(set_sortkeys(rows, keys), SortDatatype(sm, ents))
    IN IF ~asc /\ sm.t # "None" THEN Reverse(sorted) ELSE sorted

patch_sort_results(rows, sm, asc, ents) ==
    IF sm.t = "None" THEN rows
    ELSE LET sorted == SortRows(set_sortkeys(rows, SortKeys(rows, sm, ents)),
                                SortDatatype(sm, ents))
         IN IF ~asc THEN Reverse(sorted) ELSE sorted

-----------------------------------------------------------------------------
(* lib.rs: SparqlValue::new_from_json.  A text is the sequence of its       *)
(* characters; a fixed stretch of characters no pattern looks into (a URL  *)
(* scheme, a host and path, a percent escape) stands as one element.       *)

\* Option: None is <<>>, Some(x) is <<x>>
None == <<>>
Some(x) == <<x>>

Digits == {"0", "1", "2", "3", "4", "5", "6", "9"}
UpperLetters == {"A", "B", "D", "F", "L", "P", "Q"}

\* https{0,1}://
Schemes == {"http://", "https://"}
EntityPath == "www.wikidata.org/entity/"
FilePath == "commons.wikimedia.org/wiki/Special:FilePath/"
WktLiteral == "http://www.opengis.net/ont/geosparql#wktLiteral"
DateTime == "http://www.w3.org/2001/XMLSchema#dateTime"

AllIn(cs, S) == \A i \in 1..Len(cs) : cs[i] \in S

\* RE_ENTITY, line 182: the capture, or None
RE_ENTITY(value) ==
    IF /\ Len(value) >= 4
       /\ value[1] \in Schemes
       /\ value[2] = EntityPath
       /\ value[3] \in UpperLetters
       /\ AllIn(SubSeq(value, 4, Len(value)), Digits)
    THEN Some(SubSeq(value, 3, Len(value)))
    ELSE None

\* RE_FILE, lines 183-185: the capture, or None
RE_FILE(value) ==
    IF Len(value) >= 3 /\ value[1] \in Schemes /\ value[2] = FilePath
    THEN Some(SubSeq(value, 3, Len(value)))
    ELSE None

\* -{0,1}\d+[\.0-9]+
IsPointNumber(cs) ==
    LET body == IF cs # <<>> /\ Head(cs) = "-" THEN Tail(cs) ELSE cs
    IN /\ Len(body) >= 2
       /\ body[1] \in Digits
       /\ AllIn(body, Digits \cup {"."})

\* RE_POINT, lines 186-187: the two captures, or None
RE_POINT(value) ==
    LET n == Len(value)
        spaces == {i \in 1..n : value[i] = " "}
    IN IF /\ n >= 4
          /\ value[1] = "Point("
          /\ value[n] = ")"
          /\ \E i \in spaces :
                /\ IsPointNumber(SubSeq(value, 2, i - 1))
                /\ IsPointNumber(SubSeq(value, i + 1, n - 1))
       THEN LET i == CHOOSE k \in spaces :
                        /\ IsPointNumber(SubSeq(value, 2, k - 1))
                        /\ IsPointNumber(SubSeq(value, k + 1, n - 1))
            IN Some(<<SubSeq(value, 2, i - 1), SubSeq(value, i + 1, n - 1)>>)
       ELSE None

\* the number a string of digits writes
RECURSIVE DigitsValue(_)
DigitsValue(cs) ==
    IF cs = <<>> THEN 0
    ELSE 10 * DigitsValue(SubSeq(cs, 1, Len(cs) - 1))
         + (CHOOSE d \in 0..9 : ToString(d) = cs[Len(cs)])

\* an f64 as sign, mantissa and number of decimals, trailing zeros dropped
RECURSIVE F64(_, _, _)
F64(neg, mant, decimals) ==
    IF decimals > 0 /\ mant % 10 = 0 THEN F64(neg, mant \div 10, decimals - 1)
    ELSE [neg |-> neg /\ mant # 0, mant |-> mant, decimals |-> decimals]

\* str::parse::<f64> on a text that IsPointNumber: Err on a second point
parse_f64(cs) ==
    LET neg == Head(cs) = "-"
        body == IF neg THEN Tail(cs) ELSE cs
        points == {i \in 1..Len(body) : body[i] = "."}
    IN IF Cardinality(points) > 1 THEN None
       ELSE IF points = {} THEN Some(F64(neg, DigitsValue(body), 0))
       ELSE LET p == CHOOSE i \in points : TRUE
            IN Some(F64(neg,
                        DigitsValue(SubSeq(body, 1, p - 1)
                                    \o SubSeq(body, p + 1, Len(body))),
                        Len(body) - p))

\* LatLon::new, lib.rs lines 162-166
LatLon(lat, lon) == [lat |-> lat, lon |-> lon]

\* percent escapes: "%20" is a space, "%FF" is no UTF-8 text
PercentDecoded(c) == IF c = "%20" THEN " " ELSE c

\* urlencoding::decode: Err when the bytes decoded are not UTF-8
urlencoding_decode(cs) ==
    IF "%FF" \in Range(cs) THEN None
    ELSE Some([i \in 1..Len(cs) |-> PercentDecoded(cs[i])])

\* str::replace("_", " ")
replace_underscores(cs) ==
    [i \in 1..Len(cs) |-> IF cs[i] = "_" THEN " " ELSE cs[i]]

\* the object handed to new_from_json: each member a string, or None
JsonBinding(type, value, datatype) ==
    [type |-> type, value |-> value, datatype |-> datatype]

\* SparqlValue::new_from_json, lib.rs lines 178-228
new_from_json(j) ==
    IF j.value = None THEN None
    ELSE IF j.type = Some("uri")
    THEN IF RE_ENTITY(j.value[1]) # None
         THEN Some(SparqlValue("Entity", RE_ENTITY(j.value[1])[1]))
         ELSE IF RE_FILE(j.value[1]) # None
         THEN LET file == urlencoding_decode(RE_FILE(j.value[1])[1])
              IN IF file = None THEN None
                 ELSE Some(SparqlValue("File", replace_underscores(file[1])))
         ELSE Some(SparqlValue("Uri", j.value[1]))
    ELSE IF j.type = Some("literal")
    THEN IF j.datatype = Some(WktLiteral)
         THEN IF RE_POINT(j.value[1]) = None THEN None
              ELSE LET caps == RE_POINT(j.value[1])[1]
                   IN IF parse_f64(caps[2]) = None \/ parse_f64(caps[1]) = None
                      THEN None
                      ELSE Some(SparqlValue("Location",
                                   LatLon(parse_f64(caps[2])[1],
                                          parse_f64(caps[1])[1])))
         ELSE IF j.datatype = Some(DateTime)
         THEN Some(SparqlValue("Time", j.value[1]))
         ELSE IF j.datatype = None
         THEN Some(SparqlValue("Literal", j.value[1]))
         ELSE None
    ELSE None

-----------------------------------------------------------------------------
(* column.rs: ColumnType::new and Column::new over texts.  The identifiers *)
(* of a resolved ColumnType are texts; a word no pattern looks into        *)
(* ("number", "instance") stands as one element.                           *)

\* str::to_lowercase, element by element
Lower(c) ==
    CASE c = "P" -> "p" [] c = "Q" -> "q" [] c = "X" -> "x"
      [] c \in {"Number", "NUMBER"} -> "number"
      [] c \in {"Label", "LABEL"} -> "label"
      [] c = "Item" -> "item"
      [] c = "Description" -> "description"
      [] c = "DE" -> "de"
      [] c = "Instance" -> "instance"
      [] OTHER -> c
to_lowercase(cs) == [i \in 1..Len(cs) |-> Lower(cs[i])]

\* str::to_uppercase, element by element
Upper(c) ==
    CASE c = "p" -> "P" [] c = "q" -> "Q" [] c = "x" -> "X"
      [] c \in {"number", "Number"} -> "NUMBER"
      [] c \in {"label", "Label"} -> "LABEL"
      [] c \in {"item", "Item"} -> "ITEM"
      [] c \in {"description", "Description"} -> "DESCRIPTION"
      [] c = "de" -> "DE"
      [] c \in {"instance", "Instance"} -> "INSTANCE"
      [] c = "of" -> "OF"
      [] OTHER -> c
to_uppercase(cs) == [i \in 1..Len(cs) |-> Upper(cs[i])]

\* str::trim
RECURSIVE trim_start(_)
trim_start(cs) ==
    IF cs # <<>> /\ Head(cs) = " " THEN trim_start(Tail(cs)) ELSE cs
trim(cs) == Reverse(trim_start(Reverse(trim_start(cs))))

\* str::split on one character: the pieces between its occurrences
RECURSIVE Split(_, _)
Split(cs, sep) ==
    IF sep \notin Range(cs) THEN <<cs>>
    ELSE LET i == CHOOSE k \in 1..Len(cs) :
                     cs[k] = sep /\ \A m \in 1..(k - 1) : cs[m] # sep
         IN <<SubSeq(cs, 1, i - 1)>> \o Split(SubSeq(cs, i + 1, Len(cs)), sep)

\* [Pp]\d+ and [Qq]\d+
IsId(cs, letters) ==
    Len(cs) >= 2 /\ cs[1] \in letters /\ AllIn(Tail(cs), Digits)

\* RE_LABEL_LANG, line 26, case-insensitive
RE_LABEL_LANG(cs) ==
    IF Len(cs) >= 3 /\ Lower(cs[1]) = "label" /\ cs[2] = "/"
    THEN Some(SubSeq(cs, 3, Len(cs))) ELSE None

\* RE_PROPERTY, line 30
RE_PROPERTY(cs) == IF IsId(cs, {"P", "p"}) THEN Some(cs) ELSE None

\* RE_PROP_QUAL, lines 31-32: blanks are allowed around each identifier
RE_PROP_QUAL(cs) ==
    LET parts == Split(cs, "/")
    IN IF /\ Len(parts) = 2
          /\ IsId(trim(parts[1]), {"P", "p"})
          /\ IsId(trim(parts[2]), {"P", "p"})
       THEN Some(<<trim(parts[1]), trim(parts[2])>>) ELSE None

\* RE_PROP_QUAL_VAL, lines 33-34
RE_PROP_QUAL_VAL(cs) ==
    LET parts == Split(cs, "/")
    IN IF /\ Len(parts) = 3
          /\ IsId(trim(parts[1]), {"P", "p"})
          /\ IsId(trim(parts[2]), {"Q", "q"})
          /\ IsId(trim(parts[3]), {"P", "p"})
       THEN Some(<<trim(parts[1]), trim(parts[2]), trim(parts[3])>>)
       ELSE None

\* RE_FIELD, line 35
RE_FIELD(cs) ==
    IF Len(cs) >= 2 /\ cs[1] = "?" THEN Some(Tail(cs)) ELSE None

\* a ColumnType whose identifiers are texts
TextColumnType(t, a, b, c) == [t |-> t, a |-> a, b |-> b, c |-> c]

\* ColumnType::new leaving the identifiers in the case they were written in
ColumnType_new_case_kept(s) ==
    IF to_lowercase(s) = <<"number">> THEN TextColumnType("Number", <<>>, <<>>, <<>>)
    ELSE IF to_lowercase(s) = <<"label">> THEN TextColumnType("Label", <<>>, <<>>, <<>>)
    ELSE IF to_lowercase(s) = <<"description">>
    THEN TextColumnType("Description", <<>>, <<>>, <<>>)
    ELSE IF to_lowercase(s) = <<"item">> THEN TextColumnType("Item", <<>>, <<>>, <<>>)
    ELSE IF RE_LABEL_LANG(s) # None
    THEN TextColumnType("LabelLang", to_lowercase(RE_LABEL_LANG(s)[1]), <<>>, <<>>)
    ELSE IF RE_PROPERTY(s) # None
    THEN TextColumnType("Property", RE_PROPERTY(s)[1], <<>>, <<>>)
    ELSE IF RE_PROP_QUAL(s) # None
    THEN TextColumnType("PropertyQualifier", RE_PROP_QUAL(s)[1][1],
                        RE_PROP_QUAL(s)[1][2], <<>>)
    ELSE IF RE_PROP_QUAL_VAL(s) # None
    THEN TextColumnType("PropertyQualifierValue", RE_PROP_QUAL_VAL(s)[1][1],
                        RE_PROP_QUAL_VAL(s)[1][2], RE_PROP_QUAL_VAL(s)[1][3])
    ELSE IF RE_FIELD(s) # None
    THEN TextColumnType("Field", RE_FIELD(s)[1], <<>>, <<>>)
    ELSE TextColumnType("Unknown", <<>>, <<>>, <<>>)

\* ColumnType::new, column.rs lines 24-69
ColumnType_new(s) ==
    IF to_lowercase(s) = <<"number">> THEN TextColumnType("Number", <<>>, <<>>, <<>>)
    ELSE IF to_lowercase(s) = <<"label">> THEN TextColumnType("Label", <<>>, <<>>, <<>>)
    ELSE IF to_lowercase(s) = <<"description">>
    THEN TextColumnType("Description", <<>>, <<>>, <<>>)
    ELSE IF to_lowercase(s) = <<"item">> THEN TextColumnType("Item", <<>>, <<>>, <<>>)
    ELSE IF RE_LABEL_LANG(s) # None
    THEN TextColumnType("LabelLang", to_lowercase(RE_LABEL_LANG(s)[1]), <<>>, <<>>)
    ELSE IF RE_PROPERTY(s) # None
    THEN TextColumnType("Property", to_uppercase(RE_PROPERTY(s)[1]), <<>>, <<>>)
    ELSE IF RE_PROP_QUAL(s) # None
    THEN TextColumnType("PropertyQualifier",
                        to_uppercase(RE_PROP_QUAL(s)[1][1]),
                        to_uppercase(RE_PROP_QUAL(s)[1][2]), <<>>)
    ELSE IF RE_PROP_QUAL_VAL(s) # None
    THEN TextColumnType("PropertyQualifierValue",
                        to_uppercase(RE_PROP_QUAL_VAL(s)[1][1]),
                        to_uppercase(RE_PROP_QUAL_VAL(s)[1][2]),
                        to_uppercase(RE_PROP_QUAL_VAL(s)[1][3]))
    ELSE IF RE_FIELD(s) # None
    THEN TextColumnType("Field", RE_FIELD(s)[1], <<>>, <<>>)
    ELSE TextColumnType("Unknown", <<>>, <<>>, <<>>)

\* the ways RE_COLUMN_LABEL, line 99, can match: k leading blanks skipped,
\* the key m long, then blanks, the ':' at c, and text after it
ColumnLabelMatches(s) ==
    {x \in (0..Len(s)) \X (1..Len(s)) \X (1..Len(s)) :
        /\ \A i \in 1..x[1] : s[i] = " "
        /\ x[1] + x[2] < x[3]
        /\ \A i \in (x[1] + x[2] + 1)..(x[3] - 1) : s[i] = " "
        /\ s[x[3]] = ":"
        /\ x[3] < Len(s)}

\* RE_COLUMN_LABEL: the two captures of the match the engine prefers (the
\* leading \s* greedy, both groups lazy), or None
RE_COLUMN_LABEL(s) ==
    LET ms == ColumnLabelMatches(s)
    IN IF ms = {} THEN None
       ELSE LET x == CHOOSE y \in ms :
                        \A z \in ms : \/ z[1] < y[1]
                                      \/ z[1] = y[1] /\ z[2] >= y[2]
                after == SubSeq(s, x[3] + 1, Len(s))
            IN Some(<<SubSeq(s, x[1] + 1, x[1] + x[2]),
                      IF trim(after) = <<>> THEN <<" ">> ELSE trim(after)>>)

\* Column::new not looking for a label
Column_new_whole(s) == [obj |-> ColumnType_new(trim(s)), label |-> trim(s)]

\* Column::new, column.rs lines 97-111
Column_new(s) ==
    IF RE_COLUMN_LABEL(s) # None
    THEN [obj |-> ColumnType_new(RE_COLUMN_LABEL(s)[1][1]),
          label |-> RE_COLUMN_LABEL(s)[1][2]]
    ELSE [obj |-> ColumnType_new(trim(s)), label |-> trim(s)]

\* the ColumnType of a Column with its identifiers as Strings (the label is
\* not carried through the pipeline)
InternColumn(col) ==
    ColumnType(col.obj.t, Str(col.obj.a), Str(col.obj.b), Str(col.obj.c))

\* what process_template, lines 291-299, leaves in self.columns: the columns
\* parameter is Some(text) or None
process_template(cols, parameter) ==
    IF parameter # None
    THEN cols \o [i \in 1..Len(Split(parameter[1], ",")) |->
                    InternColumn(Column_new(Split(parameter[1], ",")[i]))]
    ELSE Append(cols, InternColumn(Column_new(<<"item">>)))

\* ListeriaList::get_label_with_fallback (listeria_list.rs is not among the
\* sources): the label in the working language, else the identifier itself
get_label_with_fallback(id, ents) ==
    IF get_local_entity_label(id, ents) # <<>>
    THEN get_local_entity_label(id, ents)[1] ELSE id

\* a Column whose label is the list of the Strings concatenated into it
Column(obj, label) == [obj |-> obj, label |-> label]

\* Column::generate_label, column.rs lines 113-132
generate_label(col, ents) ==
    Column(col.obj,
        CASE col.obj.t = "Property" ->
                 <<get_label_with_fallback(col.obj.a, ents)>>
          [] col.obj.t = "PropertyQualifier" ->
                 <<get_label_with_fallback(col.obj.a, ents), "/",
                   get_label_with_fallback(col.obj.b, ents)>>
          [] col.obj.t = "PropertyQualifierValue" ->
                 <<get_label_with_fallback(col.obj.a, ents), "/",
                   get_label_with_fallback(col.obj.a, ents), "/",
                   get_label_with_fallback(col.obj.a, ents)>>
          [] OTHER -> col.label)

-----------------------------------------------------------------------------
(* listeria_page.rs: parse_sparql.  A JSON value is given by its kind and, *)
(* for an array, its items; for an object, its members.                    *)

JsonArray(items) == [kind |-> "array", items |-> items]
JsonString(str) == [kind |-> "string", s |-> str]
\* a value that is neither an array, an object nor a string (null when the
\* member is absent)
JsonNull == [kind |-> "null", items |-> <<>>, s |-> ""]
JsonNumber == [kind |-> "number", items |-> <<>>, s |-> ""]
JsonObject(members) == [kind |-> "object", members |-> members]

\* the String of a text of the fixture
Intern(v) == IF v.t = "Location" THEN v ELSE SparqlValue(v.t, Str(v.a))

\* a binding row of the document is read without error
RowParses(b) ==
    /\ b.kind = "object"
    /\ \A k \in DOMAIN b.members : new_from_json(b.members[k]) # None

\* the HashMap parse_sparql builds of one binding row
ParsedRow(b) ==
    [k \in DOMAIN b.members |-> Intern(new_from_json(b.members[k])[1])]

\* parse_sparql, lines 352-384: what it returns and the fields it leaves
parse_sparql(doc) ==
    IF \/ doc.head_vars.kind # "array"
       \/ doc.head_vars.items = <<>>
       \/ doc.head_vars.items[1].kind # "string"
    THEN [result |-> "Err", first_variable |-> None, rows |-> <<>>]
    ELSE LET first_var == doc.head_vars.items[1].s
         IN IF doc.bindings.kind # "array"
            THEN [result |-> "Err", first_variable |-> Some(first_var),
                  rows |-> <<>>]
            ELSE LET bs == doc.bindings.items
                     bad == {i \in 1..Len(bs) : ~RowParses(bs[i])}
                     stop == IF bad = {} THEN Len(bs) + 1
                             ELSE CHOOSE i \in bad : \A k \in bad : i <= k
                     read == SubSeq(bs, 1, stop - 1)
                     rows == Flatten([i \in 1..Len(read) |->
                                 IF DOMAIN read[i].members = {} THEN <<>>
                                 ELSE <<ParsedRow(read[i])>>])
                 IN [result |-> IF bad = {} THEN "Ok"
                                ELSE IF bs[stop].kind # "object" THEN "panic"
                                ELSE "Err",
                     first_variable |-> Some(first_var),
                     rows |-> rows]

-----------------------------------------------------------------------------
(* lib.rs: the rendering of a part and of a cell.  A rendered text is the  *)
(* sequence of its characters; a fixed stretch of markup stands as one     *)
(* element.                                                                 *)

\* tabbed_string_safe, line 373: the length from which the text is sliced
TabbedCap == 380

\* the characters of the string of a part: the strings of the fixture, and
\* texts with a newline, with a tab and of a length around TabbedCap
TextOf(s) ==
    CASE s = "a\nc" -> <<"a", "\n", "c">>
      [] s = "a\tc" -> <<"a", "\t", "c">>
      [] s = "a..a (379)" -> [i \in 1..(TabbedCap - 1) |-> "a"]
      [] s = "a..a (380)" -> [i \in 1..TabbedCap |-> "a"]
      [] s = "a..a (381)" -> [i \in 1..(TabbedCap + 1) |-> "a"]
      [] OTHER -> Chars(s)

\* str::replace(from, to) for one character
replace_char(cs, from, to) ==
    [i \in 1..Len(cs) |-> IF cs[i] = from THEN to ELSE cs[i]]

\* ResultCellPart::tabbed_string_safe, lib.rs lines 370-377: the slice of
\* line 374 is computed and dropped, the replaced text is returned whole
tabbed_string_safe(cs) ==
    LET replaced == replace_char(replace_char(cs, "\n", " "), "\t", " ")
        sliced == IF Len(replaced) >= TabbedCap
                  THEN SubSeq(replaced, 1, TabbedCap) ELSE replaced
    IN replaced

\* ListeriaPage::normalize_page_title, lines 1098-1105
normalize_page_title(title) ==
    LET cs == TextOf(title)
        up(c) == CASE c = "a" -> "A" [] c = "b" -> "B" [] c = "c" -> "C"
                   [] OTHER -> c
    IN IF Len(cs) < 2 THEN cs ELSE <<up(cs[1])>> \o Tail(cs)

\* ListeriaPage::thumbnail_size, lines 169-179, with no thumb parameter
thumbnail_size == "128"

\* the separator of the parts of a SnakList, line 449 (a dash between blanks)
EmDash == " -- "

\* what a part is rendered for: the page's link mode, entity store and
\* page-existence cache
RenderContext(lt, ents, cache) == [links |-> lt, entities |-> ents, cache |-> cache]

\* external_id_url, lines 181-196: the first formatter URL (P1630) of the
\* property with the identifier put in
external_id_url(prop, id, ents) ==
    IF prop \notin ents THEN <<>>
    ELSE LET cs == claims_with_property(prop, "P1630")
             urls == FilterSeq(cs, {cs[i] : i \in {j \in 1..Len(cs) :
                                       cs[j].main.kind = "StringValue"}})
         IN IF urls = <<>> THEN <<>>
            ELSE <<TextOf(urls[1].main.value) \o TextOf(id)>>

\* ResultCellPart::as_wikitext, lib.rs lines 379-450
RECURSIVE part_as_wikitext(_, _, _)
part_as_wikitext(part, list, rownum) ==
    CASE part.t = "Number" ->
             <<"style='text-align:right'| ", ToString(rownum + 1)>>
      [] part.t = "Entity" ->
             LET id == TextOf(part.a)
                 entity_id_link == <<"''[[:d:">> \o id \o <<"|">> \o id \o <<"]]''">>
                 l == get_local_entity_label(part.a, list.entities)
             IN IF part.b # "true" THEN entity_id_link
                ELSE IF l = <<>> THEN entity_id_link
                ELSE LET label == TextOf(l[1])
                         labeled_entity_link ==
                             <<"''[[:d:">> \o id \o <<"|">> \o label \o <<"]]''">>
                     IN CASE list.links = "Text" -> label
                          [] list.links \in {"Red", "RedOnly"} ->
                                 IF local_page_exists(list.cache, l[1])
                                 THEN labeled_entity_link
                                 ELSE <<"[[">> \o label \o <<"]]">>
                          [] list.links = "Reasonator" ->
                                 <<"[https://reasonator.toolforge.org/?q=">>
                                 \o id \o <<" ">> \o label \o <<"]">>
                          [] OTHER -> labeled_entity_link
      [] part.t = "LocalLink" ->
             IF normalize_page_title(part.a) = normalize_page_title(part.b)
             THEN <<"[[">> \o TextOf(part.b) \o <<"]]">>
             ELSE <<"[[">> \o TextOf(part.a) \o <<"|">> \o TextOf(part.b)
                  \o <<"]]">>
      [] part.t = "File" ->
             <<"[[", "File", ":">> \o TextOf(part.a)
             \o <<"|thumb|", thumbnail_size, "px|]]">>
      [] part.t = "ExternalId" ->
             LET url == external_id_url(part.a, part.b, list.entities)
             IN IF url = <<>> THEN TextOf(part.b)
                ELSE <<"[">> \o url[1] \o <<" ">> \o TextOf(part.b) \o <<"]">>
      [] part.t = "SnakList" ->
             IF part.v = <<>> THEN <<>>
             ELSE IF Len(part.v) = 1
             THEN part_as_wikitext(part.v[1], list, rownum)
             ELSE part_as_wikitext(part.v[1], list, rownum) \o <<EmDash>>
                  \o part_as_wikitext(SnakList(Tail(part.v)), list, rownum)
      [] OTHER -> TextOf(part.a)

\* ResultCellPart::as_tabbed_data, lib.rs lines 452-460
part_as_tabbed_data(part, list, rownum) ==
    tabbed_string_safe(part_as_wikitext(part, list, rownum))

\* Vec<String>::join
RECURSIVE Join(_, _)
Join(texts, sep) ==
    IF texts = <<>> THEN <<>>
    ELSE IF Len(texts) = 1 THEN texts[1]
    ELSE texts[1] \o <<sep>> \o Join(Tail(texts), sep)

\* ResultCell::as_tabbed_data with the separator left out
cell_as_tabbed_data_unseparated(parts, list, rownum) ==
    [kind |-> "string",
     s |-> Flatten([i \in 1..Len(parts) |->
               part_as_tabbed_data(parts[i], list, rownum)])]

\* ResultCell::as_tabbed_data, lib.rs lines 472-480: a JSON string
cell_as_tabbed_data(parts, list, rownum) ==
    [kind |-> "string",
     s |-> Join([i \in 1..Len(parts) |->
                    part_as_tabbed_data(parts[i], list, rownum)], "<br/>")]

\* ResultCell::as_wikitext, lib.rs lines 482-489
cell_as_wikitext(parts, list, rownum) ==
    Join([i \in 1..Len(parts) |-> part_as_wikitext(parts[i], list, rownum)],
         "<br/>")

\* TemplateParams as far as the renderer reads them, lines 310-315
TemplateParams(header_template, row_template, summary, skip_table) ==
    [fn |-> "params", header_template |-> header_template,
     row_template |-> row_template, summary |-> summary,
     skip_table |-> skip_table]

\* Column.label of a column written by its key alone: Column::new keeps the
\* key as the label, and label_columns writes the identifiers of a property
\* column back while no property is loaded
column_label(obj) ==
    CASE obj.t = "Number" -> <<"number">>
      [] obj.t = "Item" -> <<"item">>
      [] obj.t = "Label" -> <<"label">>
      [] obj.t = "Property" -> <<obj.a>>
      [] obj.t = "PropertyQualifier" -> <<obj.a, "/", obj.b>>
      [] obj.t = "PropertyQualifierValue" -> <<obj.a, "/", obj.a, "/", obj.a>>
      [] OTHER -> <<obj.a>>

\* ResultRow::as_wikitext (result_row.rs is not among the sources): the row
\* template called with the cells, or one markup cell per cell
row_as_wikitext(row, list, params, rownum) ==
    IF params.row_template # <<>>
    THEN <<"{{", params.row_template[1]>>
         \o Flatten([c \in 1..Len(row.cells) |->
                <<"|">> \o cell_as_wikitext(row.cells[c], list, rownum)])
         \o <<"}}">>
    ELSE Flatten([c \in 1..Len(row.cells) |->
             (IF c > 1 THEN <<"\n">> ELSE <<>>)
             \o <<"| ">> \o cell_as_wikitext(row.cells[c], list, rownum)])

\* ResultRow::as_tabbed_data (result_row.rs is not among the sources): the
\* section and every cell as one display string
row_as_tabbed_data(row, list, rownum) ==
    [section |-> row.section,
     cells |-> [c \in 1..Len(row.cells) |->
                   cell_as_tabbed_data(row.cells[c], list, rownum)]]

\* sort_unstable and dedup of get_section_ids
RECURSIVE sort_unstable_dedup(_)
sort_unstable_dedup(S) ==
    IF S = {} THEN <<>>
    ELSE LET least == CHOOSE x \in S : \A y \in S : x <= y
         IN <<least>> \o sort_unstable_dedup(S \ {least})

\* get_section_ids, lines 1030-1039
get_section_ids(rs) == sort_unstable_dedup({rs[i].section : i \in 1..Len(rs)})

\* as_wikitext_table_header, lines 1041-1061
as_wikitext_table_header(cols, params) ==
    IF params.header_template # <<>>
    THEN <<"{{", params.header_template[1], "}}", "\n">>
    ELSE IF ~params.skip_table
    THEN <<"{| class='wikitable sortable' style='width:100%'", "\n">>
         \o Flatten([c \in 1..Len(cols) |->
                <<"! ">> \o column_label(cols[c]) \o <<"\n">>])
    ELSE <<>>

\* the rows of a section, numbered within it, lines 1077-1083
SectionRows(section_id, rs) ==
    FilterSeq(rs, {rs[i] : i \in {j \in 1..Len(rs) :
                                    rs[j].section = section_id}})

\* as_wikitext_section, lines 1063-1096
as_wikitext_section(section_id, rs, cols, list, params) ==
    LET rows == [n \in 1..Len(SectionRows(section_id, rs)) |->
                    row_as_wikitext(SectionRows(section_id, rs)[n], list,
                                    params, n - 1)]
    IN as_wikitext_table_header(cols, params)
       \o (IF params.row_template = <<>> /\ ~params.skip_table /\ rs # <<>>
           THEN <<"|-", "\n">> ELSE <<>>)
       \o (IF params.skip_table THEN Join(rows, "\n")
           ELSE Join(rows, "\n|-\n"))
       \o (IF ~params.skip_table THEN <<"\n|}">> ELSE <<>>)

\* the disclaimer of as_wikitext, lines 1119-1124
ShadowNote(shadow) ==
    IF shadow = <<>> THEN <<>>
    ELSE <<"\n----\nThe following local image(s) are not shown in the above list, because they shadow a Commons image of the same name, and might be non-free:">>
         \o Flatten([i \in 1..Len(shadow) |->
                <<"\n# [[:", "File", ":", shadow[i], "|]]">>])

\* as_wikitext emitting the rows last first
as_wikitext_rows_reversed(rs, cols, list, params, shadow) ==
    Flatten([k \in 1..Len(get_section_ids(rs)) |->
        as_wikitext_section(get_section_ids(rs)[k], Reverse(rs), cols, list,
                            params)])
    \o ShadowNote(shadow)
    \o (IF params.summary = <<"ITEMNUMBER">>
        THEN <<"\n----\n&sum; ", ToString(Len(rs)), " items.">>
        ELSE <<>>)

\* as_wikitext, lines 1111-1134
as_wikitext(rs, cols, list, params, shadow) ==
    Flatten([k \in 1..Len(get_section_ids(rs)) |->
        as_wikitext_section(get_section_ids(rs)[k], rs, cols, list, params)])
    \o ShadowNote(shadow)
    \o (IF params.summary = <<"ITEMNUMBER">>
        THEN <<"\n----\n&sum; ", ToString(Len(rs)), " items.">>
        ELSE <<>>)

\* as_tabbed_data, lines 1136-1151
as_tabbed_data(rs, cols, list) ==
    [fields |-> <<[name |-> <<"section">>, type |-> "number",
                   title |-> <<"Section">>]>>
                \o [c \in 1..Len(cols) |->
                       [name |-> <<"col_", ToString(c - 1)>>,
                        type |-> "string", title |-> column_label(cols[c])]],
     data |-> [i \in 1..Len(rs) |-> row_as_tabbed_data(rs[i], list, i - 1)]]

-----------------------------------------------------------------------------
(* The inputs of a run *)

\* a binding row binding the first variable to an item
BindingRow(q) == [item |-> SparqlValue("Entity", q)]
BindingRows == {BindingRow(q) : q \in Items}

\* the column lists drawn for a pipeline run
ColumnConfigs ==
    {<<ColumnType("Number", "", "", "")>>,
     <<ColumnType("Item", "", "", "")>>,
     <<ColumnType("Label", "", "", ""), ColumnType("Property", "P5", "", "")>>,
     <<ColumnType("Item", "", "", ""),
       ColumnType("PropertyQualifier", "P5", "P6", "")>>,
     <<ColumnType("Property", "P1", "", "")>>}

\* the column lists drawn for a sort run
SortColumnConfigs ==
    {<<ColumnType("Item", "", "", "")>>,
     <<ColumnType("Number", "", "", "")>>}

SortModes ==
    {SortNone, SortMode("Label", ""), SortMode("FamilyName", ""),
     SortMode("Property", "P1"), SortMode("Property", "P2"),
     SortMode("Property", "P3"), SortMode("Property", "P4")}

\* the document once parse_sparql has consumed it
NoDocument == [head_vars |-> "taken", bindings |-> "taken"]
\* no function is called on its own
NoCall == [fn |-> "none"]

EmptyCache == [t \in {} |-> FALSE]
NoAnswers == [f \in {} |-> "shared"]

Snapshot ==
    [results |-> results, shadow_files |-> shadow_files,
     local_page_cache |-> local_page_cache, entities |-> entities]

\* the page after process_template and run_query, before load_entities
InitWith(W, L, S, A, C, n) ==
    /\ wiki \in W
    /\ links \in L
    /\ sort \in S
    /\ sort_ascending \in A
    /\ one_row_per_item = TRUE
    /\ columns \in C
    /\ sparql_json = NoDocument
    /\ sparql_rows \in SeqsUpTo(BindingRows, n)
    /\ sparql_first_variable = <<"item">>
    /\ arg = NoCall
    /\ ret = NoCall
    /\ entities = {}
    /\ results = <<>>
    /\ local_page_cache = EmptyCache
    /\ shadow_files = <<>>
    /\ pc = "load_entities"
    /\ outcome = "running"
    /\ stages = <<>>
    /\ failed = {}
    /\ pre = [results |-> <<>>, shadow_files |-> <<>>,
              local_page_cache |-> EmptyCache, entities |-> {}]
    /\ file_answers = NoAnswers
    /\ checked = <<>>
    /\ lookups = <<>>
    /\ title_failed = {}
    /\ shadow_runs = 0

Init == InitWith(Wikis, LinksTypes, {SortNone}, {TRUE}, ColumnConfigs, MaxRows)

\* the page of a run under the link modes that remove rows or rewrite parts,
\* unsorted and sorted by label in either order
InitStages ==
    InitWith(Wikis, {"All", "Local", "RedOnly"}, {SortNone, SortMode("Label", "")},
             BOOLEAN, ColumnConfigs, MaxRows)

InitSort ==
    InitWith({"dewiki"}, {"All"}, SortModes, BOOLEAN, SortColumnConfigs,
             MaxSortRows)

\* a bound value of the document: an entity URI, an untyped literal, a blank
\* node (which new_from_json cannot classify)
EntityUri(id) == JsonBinding(Some("uri"), Some(<<"http://", EntityPath>> \o Chars(id)), None)
LiteralA == JsonBinding(Some("literal"), Some(<<"a">>), None)
BlankNode == JsonBinding(Some("bnode"), Some(<<"a">>), None)

\* the binding rows drawn for a document; the last is no object
DocRows ==
    {JsonObject([item |-> EntityUri("Q1")]),
     JsonObject([item |-> EntityUri("Q5")]),
     JsonObject([item |-> EntityUri("P5")]),
     JsonObject([item |-> LiteralA]),
     JsonObject([x |-> EntityUri("Q2")]),
     JsonObject([item |-> EntityUri("Q1"), x |-> EntityUri("Q2")]),
     JsonObject([k \in {} |-> BlankNode]),
     JsonObject([item |-> BlankNode]),
     [kind |-> "string", members |-> [k \in {} |-> BlankNode]]}

Document(head_vars, bindings) == [head_vars |-> head_vars, bindings |-> bindings]

\* the query-result documents drawn: well-formed heads over every list of
\* rows, and each malformed head or bindings member
Documents ==
    {Document(JsonArray(h), JsonArray(bs)) :
        h \in {<<JsonString("item")>>, <<JsonString("x"), JsonString("item")>>},
        bs \in SeqsUpTo(DocRows, MaxDocRows)}
    \cup {Document(h, JsonArray(bs)) :
            h \in {JsonNull, JsonString("item"), JsonArray(<<>>),
                   JsonArray(<<JsonNumber, JsonString("item")>>)},
            bs \in {<<>>, <<JsonObject([item |-> EntityUri("Q1")])>>}}
    \cup {Document(JsonArray(<<JsonString("item")>>), b) :
            b \in {JsonNull, JsonObject([item |-> EntityUri("Q1")])}}

\* the column lists drawn for a run from a document
RowColumnConfigs ==
    {<<ColumnType("Number", "", "", "")>>,
     <<ColumnType("Label", "", "", "")>>,
     <<ColumnType("Item", "", "", ""), ColumnType("Property", "P5", "", "")>>}

\* the page after process_template, before run_query
InitRows ==
    /\ wiki = "dewiki"
    /\ links \in {"All", "Local", "Red", "Text"}
    /\ sort = SortNone
    /\ sort_ascending = TRUE
    /\ one_row_per_item \in BOOLEAN
    /\ columns \in RowColumnConfigs
    /\ sparql_json \in Documents
    /\ sparql_rows = <<>>
    /\ sparql_first_variable = None
    /\ arg = NoCall
    /\ ret = NoCall
    /\ entities = {}
    /\ results = <<>>
    /\ local_page_cache = EmptyCache
    /\ shadow_files = <<>>
    /\ pc = "parse_sparql"
    /\ outcome = "running"
    /\ stages = <<>>
    /\ failed = {}
    /\ pre = [results |-> <<>>, shadow_files |-> <<>>,
              local_page_cache |-> EmptyCache, entities |-> {}]
    /\ file_answers = NoAnswers
    /\ checked = <<>>
    /\ lookups = <<>>
    /\ title_failed = {}
    /\ shadow_runs = 0

\* the texts of bound values handed to new_from_json
ValueTexts ==
    {<<"http://", EntityPath, "Q", "4", "2">>,
     <<"https://", EntityPath, "P", "5">>,
     <<"http://", EntityPath, "q", "1">>,
     <<"http://", EntityPath, "Q">>,
     <<"http://", EntityPath, "L", "1", "-", "F", "1">>,
     <<"ftp://", EntityPath, "Q", "1">>,
     <<"http://", FilePath, "a", "_", "c">>,
     <<"https://", FilePath, "a", "%20", "c", "_", "_">>,
     <<"http://", FilePath, "a", "%FF">>,
     <<"http://", FilePath>>,
     <<"http://", "example.org/", "a">>,
     <<"Point(", "1", "3", ".", "4", " ", "5", "2", ".", "5", ")">>,
     <<"Point(", "-", "3", ".", "0", " ", "4", "0", ".", "0", "0", ")">>,
     <<"Point(", "5", " ", "3", ")">>,
     <<"Point(", "1", "3", ".", "4", " ", "5", ")">>,
     <<"Point(", "1", ".", "2", ".", "3", " ", "4", ".", "5", ")">>,
     <<"Point(", "1", "3", ".", "4", ")">>,
     <<"Point(", "1", "3", ".", "4", " ", "5", "2", ".", "5", " ", "1", ".", "0", ")">>,
     <<"a", " ", "c">>,
     <<"2001-01-01T00:00:00Z">>}

\* the objects handed to new_from_json
JsonBindings ==
    {JsonBinding(t, v, d) :
        t \in {None, Some("uri"), Some("literal"), Some("bnode")},
        v \in {None} \cup {Some(x) : x \in ValueTexts},
        d \in {None, Some(WktLiteral), Some(DateTime),
               Some("http://www.w3.org/2001/XMLSchema#decimal")}}

\* the characters column texts are drawn from, and texts drawn whole
ColumnAlphabet == {"P", "p", "Q", "1", " ", "/", ":", "?", "x"}
ColumnExamples ==
    {<<"P", "3", "1", ":", "instance", " ", "of">>,
     <<"p", "3", "1", " ", ":", " ", "Instance", " ">>,
     <<"P", "3", "1", ":">>,
     <<"number">>, <<" ", "Number", " ">>, <<"NUMBER", ":", "x">>,
     <<"label">>, <<"item">>, <<"Description">>,
     <<"Label", "/", "DE">>, <<"label", "/">>,
     <<"P", "1", "/", "P", "2">>, <<"p", "1", " ", "/", " ", "p", "2">>,
     <<"P", "1", "/", "Q", "2", "/", "P", "3">>,
     <<"p", "1", "/", "q", "2", "/", "p", "3">>,
     <<"P", "1", "/", "P", "2", "/", "P", "3">>,
     <<"P", "1", "/", "q", "2", "/", "p", "3", ":", "of">>,
     <<"?", "X", "x">>,
     <<"instance", ":", "of", ":", "x">>,
     <<" ", "P", "1", " ">>}
ColumnTexts == SeqsUpTo(ColumnAlphabet, MaxColumnLen) \cup ColumnExamples

\* the columns handed to generate_label
LabelColumns ==
    {Column(obj, label) :
        obj \in {ColumnType("Number", "", "", ""),
                 ColumnType("Label", "", "", ""),
                 ColumnType("Field", "x", "", ""),
                 ColumnType("Unknown", "", "", ""),
                 ColumnType("Property", "P1", "", ""),
                 ColumnType("Property", "P5", "", ""),
                 ColumnType("PropertyQualifier", "P5", "P6", ""),
                 ColumnType("PropertyQualifier", "P1", "P5", ""),
                 ColumnType("PropertyQualifierValue", "P5", "Q1", "P6"),
                 ColumnType("PropertyQualifierValue", "P1", "Q4", "P5"),
                 ColumnType("PropertyQualifierValue", "P5", "P5", "P5")},
        label \in {<<>>, <<"x">>, <<"P5">>}}

\* the parts handed to the renderer
RenderParts ==
    {Number, Entity("Q1", TRUE), Entity("Q1", FALSE), Entity("Q4", TRUE),
     Entity("Q5", TRUE), LocalLink("B a", "b a"), LocalLink("D", "a c"),
     Time("2001"), File("F1"), Uri("a"), Text("a c"), Text("a\nc"),
     Text("a\tc"), Text("a..a (379)"), Text("a..a (380)"),
     Text("a..a (381)"), SnakList(<<File("F1"), Entity("Q1", TRUE)>>),
     SnakList(<<Text("a\nc")>>)}

\* the cells handed to the renderer
RenderCells ==
    SeqsUpTo({Number, Entity("Q1", TRUE), Text("a\nc"), File("F1")}, MaxParts)

\* the rendering functions called on their own
RenderFns ==
    {"part::as_wikitext", "part::as_tabbed_data", "cell::as_wikitext",
     "cell::as_tabbed_data"}

\* the calls of a function on its own
Calls ==
    {[fn |-> "new_from_json", j |-> j] : j \in JsonBindings}
    \cup {[fn |-> "Column::new", s |-> s] : s \in ColumnTexts}
    \cup {[fn |-> "generate_label", col |-> c] : c \in LabelColumns}
    \cup {[fn |-> f, part |-> q, rownum |-> n] :
            f \in {"part::as_wikitext", "part::as_tabbed_data"},
            q \in RenderParts, n \in {0, 1}}
    \cup {[fn |-> f, parts |-> c, rownum |-> 0] :
            f \in {"cell::as_wikitext", "cell::as_tabbed_data"},
            c \in RenderCells}

\* the page-existence caches a renderer is called under
RenderCaches ==
    {EmptyCache, [t \in {"b a"} |-> TRUE], [t \in {"b a"} |-> FALSE],
     [t \in {"B a"} |-> TRUE]}

\* a page holding a store of entities, and one call about to be made
InitFn ==
    /\ arg \in Calls
    /\ wiki = "dewiki"
    /\ links \in IF arg.fn \in RenderFns THEN LinksTypes ELSE {"All"}
    /\ sort = SortNone
    /\ sort_ascending = TRUE
    /\ one_row_per_item = TRUE
    /\ columns = <<>>
    /\ sparql_json = NoDocument
    /\ sparql_rows = <<>>
    /\ sparql_first_variable = None
    /\ ret = NoCall
    /\ entities \in {{}, Props \cup {"Q1", "Q4"}}
    /\ results = <<>>
    /\ local_page_cache \in IF arg.fn \in RenderFns THEN RenderCaches
                           ELSE {EmptyCache}
    /\ shadow_files = <<>>
    /\ pc = "call"
    /\ outcome = "running"
    /\ stages = <<>>
    /\ failed = {}
    /\ pre = [results |-> <<>>, shadow_files |-> <<>>,
              local_page_cache |-> EmptyCache, entities |-> {}]
    /\ file_answers = NoAnswers
    /\ checked = <<>>
    /\ lookups = <<>>
    /\ title_failed = {}
    /\ shadow_runs = 0

\* the settings of the template the renderer reads
RenderParams ==
    {TemplateParams(h, r, s, k) :
        h \in {None, Some("T")}, r \in {None, Some("R")},
        s \in {None, Some("ITEMNUMBER")}, k \in BOOLEAN}

\* the binding rows drawn for a run that is rendered
RenderRows == {BindingRow(q) : q \in {"Q1", "Q3", "Q5"}}

\* the column lists drawn for a run that is rendered
RenderColumnConfigs ==
    {<<ColumnType("Number", "", "", "")>>,
     <<ColumnType("Item", "", "", ""), ColumnType("Property", "P5", "", "")>>}

\* the page after process_template and run_query, with the settings of the
\* template that the renderer reads
InitRender ==
    /\ wiki = "enwiki"
    /\ links \in {"All", "Red"}
    /\ sort = SortNone
    /\ sort_ascending = TRUE
    /\ one_row_per_item = TRUE
    /\ columns \in RenderColumnConfigs
    /\ sparql_json = NoDocument
    /\ sparql_rows \in SeqsUpTo(RenderRows, MaxRows)
    /\ sparql_first_variable = <<"item">>
    /\ arg \in RenderParams
    /\ ret = NoCall
    /\ entities = {}
    /\ results = <<>>
    /\ local_page_cache = EmptyCache
    /\ shadow_files = <<>>
    /\ pc = "load_entities"
    /\ outcome = "running"
    /\ stages = <<>>
    /\ failed = {}
    /\ pre = [results |-> <<>>, shadow_files |-> <<>>,
              local_page_cache |-> EmptyCache, entities |-> {}]
    /\ file_answers = NoAnswers
    /\ checked = <<>>
    /\ lookups = <<>>
    /\ title_failed = {}
    /\ shadow_runs = 0

\* the columns parameters drawn for a template
TemplateColumns ==
    {None, Some(<<"item">>), Some(<<"number", ",", "P", "5">>),
     Some(<<"item", ",", " ", "p", "5", ":", "x", ",", "label">>)}

\* the documents the query service answers a run with
RunDocuments ==
    {Document(JsonArray(<<JsonString("item")>>), JsonArray(bs)) :
        bs \in {<<>>, <<JsonObject([item |-> EntityUri("Q1")])>>}}

\* the page after new(), lines 103-133, the template of its wikitext found
\* by load_page or not
InitRuns ==
    /\ wiki = "dewiki"
    /\ links = "All"
    /\ sort = SortNone
    /\ sort_ascending = TRUE
    /\ one_row_per_item = TRUE
    /\ columns = <<>>
    /\ sparql_json = NoDocument
    /\ sparql_rows = <<>>
    /\ sparql_first_variable = None
    /\ arg \in {[fn |-> "template", found |-> f, columns |-> c] :
                    f \in BOOLEAN, c \in TemplateColumns}
    /\ ret = NoCall
    /\ entities = {}
    /\ results = <<>>
    /\ local_page_cache = EmptyCache
    /\ shadow_files = <<>>
    /\ pc = "run"
    /\ outcome = "running"
    /\ stages = <<>>
    /\ failed = {}
    /\ pre = [results |-> <<>>, shadow_files |-> <<>>,
              local_page_cache |-> EmptyCache, entities |-> {}]
    /\ file_answers = NoAnswers
    /\ checked = <<>>
    /\ lookups = <<>>
    /\ title_failed = {}
    /\ shadow_runs = 0

-----------------------------------------------------------------------------
(* The steps of run(), lines 153-160 and 1020-1028 *)

params == <<wiki, links, sort, sort_ascending, one_row_per_item, columns,
            sparql_rows, sparql_json, sparql_first_variable, arg, ret>>
shadow_history == <<file_answers, checked, shadow_runs>>
title_history == <<lookups, title_failed>>

\* patch_results calling the localize stage before the redlinks-only filter
StageAfter_localize_first(stage) ==
    CASE stage = "gather" -> "local_links"
      [] stage = "local_links" -> "redlinks_only"
      [] stage = "redlinks_only" -> "redlinks"
      [] stage = "redlinks" -> "shadow"
      [] stage = "shadow" -> "sort"
      [] stage = "sort" -> "done"

\* patch_results, lines 1020-1028: the stage called after a stage returns Ok
StageAfter(stage) ==
    CASE stage = "gather" -> "redlinks_only"
      [] stage = "redlinks_only" -> "local_links"
      [] stage = "local_links" -> "redlinks"
      [] stage = "redlinks" -> "shadow"
      [] stage = "shadow" -> "sort"
      [] stage = "sort" -> "done"

\* the step returns Err and run() returns it
ReturnErr == pc' = "done" /\ outcome' = "Err"

\* load_entities, lines 386-416
LoadEntities ==
    /\ pc = "load_entities"
    /\ pre' = Snapshot
    /\ LET needed == \E c \in 1..Len(columns) :
                        columns[c].t \notin {"Number", "Item", "Field"}
           ids == get_ids_from_sparql_rows(sparql_rows, columns)
       IN IF ~needed
          THEN entities' = entities /\ pc' = "get_results" /\ outcome' = outcome
          ELSE IF ids = <<>>
          THEN entities' = entities /\ ReturnErr
          ELSE \E ok \in BOOLEAN :
                  IF ok
                  THEN /\ entities' = load_items(ids, entities)
                       /\ pc' = "get_results"
                       /\ outcome' = outcome
                  ELSE entities' = entities /\ ReturnErr
    /\ UNCHANGED <<params, results, local_page_cache, shadow_files, stages,
                   failed, shadow_history, title_history>>

\* self.results = self.get_results()?, line 158
GetResults ==
    /\ pc = "get_results"
    /\ pre' = Snapshot
    /\ results' = get_results(sparql_rows, columns, entities, wiki, links,
                              one_row_per_item)
    /\ pc' = "gather"
    /\ UNCHANGED <<params, entities, local_page_cache, shadow_files, outcome,
                   stages, failed, shadow_history, title_history>>

\* gather_and_load_items, lines 791-810
GatherAndLoadItems ==
    /\ pc = "gather"
    /\ pre' = Snapshot
    /\ stages' = Append(stages, "gather")
    /\ \E ok1, ok2 \in BOOLEAN :
          LET e1 == load_items(GatherIds(results, sort), entities)
              e2 == IF sort.t = "Property"
                    THEN load_items(GatherSortIds(results, sort, e1), e1)
                    ELSE e1
          IN IF ~ok1
             THEN entities' = entities /\ failed' = failed \cup {"gather"}
                  /\ ReturnErr
             ELSE IF ~ok2 /\ sort.t = "Property"
             THEN entities' = e1 /\ failed' = failed \cup {"gather"}
                  /\ ReturnErr
             ELSE /\ entities' = e2
                  /\ failed' = failed
                  /\ pc' = StageAfter("gather")
                  /\ outcome' = outcome
    /\ UNCHANGED <<params, results, local_page_cache, shadow_files,
                   shadow_history, title_history>>

\* patch_redlinks_only, lines 887-911
PatchRedlinksOnly ==
    /\ pc = "redlinks_only"
    /\ pre' = Snapshot
    /\ stages' = Append(stages, "redlinks_only")
    /\ IF links # "RedOnly"
       THEN results' = results /\ pc' = StageAfter("redlinks_only")
            /\ outcome' = outcome
       ELSE IF RedlinksOnlyPanics(results, entities)
       THEN results' = results /\ pc' = "done" /\ outcome' = "panic"
       ELSE /\ results' = patch_redlinks_only(results, wiki)
            /\ pc' = StageAfter("redlinks_only")
            /\ outcome' = outcome
    /\ UNCHANGED <<params, entities, local_page_cache, shadow_files, failed,
                   shadow_history, title_history>>

\* patch_items_to_local_links, lines 707-727
PatchItemsToLocalLinks ==
    /\ pc = "local_links"
    /\ pre' = Snapshot
    /\ stages' = Append(stages, "local_links")
    /\ results' = patch_items_to_local_links(results, entities, wiki)
    /\ pc' = StageAfter("local_links")
    /\ UNCHANGED <<params, entities, local_page_cache, shadow_files, outcome,
                   failed, shadow_history, title_history>>

\* patch_redlinks, lines 913-957
PatchRedlinks ==
    /\ pc = "redlinks"
    /\ pre' = Snapshot
    /\ stages' = Append(stages, "redlinks")
    /\ IF links \notin {"RedOnly", "Red"}
       THEN UNCHANGED <<local_page_cache, title_history>>
       ELSE LET labels == RedlinkLabels(results, entities)
            IN \E ans \in [Range(labels) -> TitleAnswers] :
                  /\ local_page_cache' = CacheAll(local_page_cache, labels, ans)
                  /\ lookups' = lookups \o labels
                  /\ title_failed' = title_failed
                        \cup {l \in Range(labels) : ans[l] = "fail"}
    /\ pc' = StageAfter("redlinks")
    /\ UNCHANGED <<params, entities, results, shadow_files, outcome, failed,
                   shadow_history>>

\* patch_remove_shadow_files, lines 812-885, leaving run() at step next_pc
RemoveShadow(next_pc) ==
    /\ pre' = Snapshot
    /\ stages' = Append(stages, "shadow")
    /\ shadow_runs' = shadow_runs + 1
    /\ IF wiki \notin wikis_to_check_for_shadow_images
       THEN UNCHANGED <<results, shadow_files, file_answers, checked>>
       ELSE LET files == files_to_check(results)
            IN \E ans \in [Range(files) -> FileAnswers] :
                  /\ \A f \in Range(files) \cap DOMAIN file_answers :
                        ans[f] = file_answers[f]
                  /\ file_answers' =
                        [f \in DOMAIN file_answers \cup Range(files) |->
                            IF f \in Range(files) THEN ans[f]
                            ELSE file_answers[f]]
                  /\ checked' = files
                  /\ shadow_files' = ShadowFilesFound(files, ans)
                  /\ results' = RemoveShadowFiles(results,
                                                  ShadowFilesFound(files, ans))
    /\ pc' = next_pc
    /\ UNCHANGED <<params, entities, local_page_cache, outcome, failed,
                   title_history>>

PatchRemoveShadowFiles == pc = "shadow" /\ RemoveShadow(StageAfter("shadow"))

\* patch_sort_results, lines 976-1018, and the Ok(()) of patch_results
PatchSortResults ==
    /\ pc = "sort"
    /\ pre' = Snapshot
    /\ stages' = Append(stages, "sort")
    /\ results' = patch_sort_results(results, sort, sort_ascending, entities)
    /\ pc' = StageAfter("sort")
    /\ outcome' = "Ok"
    /\ UNCHANGED <<params, entities, local_page_cache, shadow_files, failed,
                   shadow_history, title_history>>

Next ==
    \/ LoadEntities
    \/ GetResults
    \/ GatherAndLoadItems
    \/ PatchRedlinksOnly
    \/ PatchItemsToLocalLinks
    \/ PatchRedlinks
    \/ PatchRemoveShadowFiles
    \/ PatchSortResults

\* run_query handing the document to parse_sparql, line 350
ParseSparql ==
    /\ pc = "parse_sparql"
    /\ pre' = Snapshot
    /\ LET r == parse_sparql(sparql_json)
       IN /\ sparql_rows' = r.rows
          /\ sparql_first_variable' = r.first_variable
          /\ IF r.result = "Ok"
             THEN pc' = "load_entities" /\ outcome' = outcome
             ELSE pc' = "done" /\ outcome' = r.result
    /\ UNCHANGED <<wiki, links, sort, sort_ascending, one_row_per_item,
                   columns, sparql_json, arg, ret, entities, results,
                   local_page_cache, shadow_files, stages, failed,
                   shadow_history, title_history>>

\* what a call of a function on its own leaves alone
page == <<wiki, links, sort, sort_ascending, one_row_per_item, columns,
          sparql_json, sparql_rows, sparql_first_variable, entities, results,
          local_page_cache, shadow_files, outcome, stages, failed, pre,
          shadow_history, title_history>>

NewFromJson ==
    /\ pc = "call" /\ arg.fn = "new_from_json"
    /\ ret' = new_from_json(arg.j)
    /\ pc' = "done"
    /\ UNCHANGED <<page, arg>>

ColumnNew ==
    /\ pc = "call" /\ arg.fn = "Column::new"
    /\ ret' = Column_new(arg.s)
    /\ pc' = "done"
    /\ UNCHANGED <<page, arg>>

GenerateLabel ==
    /\ pc = "call" /\ arg.fn = "generate_label"
    /\ ret' = generate_label(arg.col, entities)
    /\ pc' = "done"
    /\ UNCHANGED <<page, arg>>

\* the page as the renderer sees it
list == RenderContext(links, entities, local_page_cache)

PartAsWikitext ==
    /\ pc = "call" /\ arg.fn = "part::as_wikitext"
    /\ ret' = part_as_wikitext(arg.part, list, arg.rownum)
    /\ pc' = "done"
    /\ UNCHANGED <<page, arg>>

PartAsTabbedData ==
    /\ pc = "call" /\ arg.fn = "part::as_tabbed_data"
    /\ ret' = part_as_tabbed_data(arg.part, list, arg.rownum)
    /\ pc' = "done"
    /\ UNCHANGED <<page, arg>>

CellAsWikitext ==
    /\ pc = "call" /\ arg.fn = "cell::as_wikitext"
    /\ ret' = cell_as_wikitext(arg.parts, list, arg.rownum)
    /\ pc' = "done"
    /\ UNCHANGED <<page, arg>>

CellAsTabbedData ==
    /\ pc = "call" /\ arg.fn = "cell::as_tabbed_data"
    /\ ret' = cell_as_tabbed_data(arg.parts, list, arg.rownum)
    /\ pc' = "done"
    /\ UNCHANGED <<page, arg>>

\* what a renderer, taking &self, leaves alone
rendered == <<wiki, links, sort, sort_ascending, one_row_per_item, columns,
              sparql_json, sparql_rows, sparql_first_variable, arg, entities,
              results, local_page_cache, shadow_files, pc, outcome, stages,
              failed, shadow_history, title_history>>

\* as_wikitext called on the page once run() has returned Ok
AsWikitext ==
    /\ pc = "done" /\ outcome = "Ok"
    /\ pre' = Snapshot
    /\ ret' = [fn |-> "as_wikitext",
               wt |-> as_wikitext(results, columns, list, arg, shadow_files)]
    /\ UNCHANGED rendered

\* as_tabbed_data called on the page once run() has returned Ok
AsTabbedData ==
    /\ pc = "done" /\ outcome = "Ok"
    /\ pre' = Snapshot
    /\ ret' = [fn |-> "as_tabbed_data",
               json |-> as_tabbed_data(results, columns, list)]
    /\ UNCHANGED rendered

\* the invocations of run() that have processed the template
Runs == Cardinality({i \in 1..Len(stages) : stages[i] = "process_template"})

\* run() called on the page, for the first time or once more after it has
\* returned: load_page and process_template, lines 154-155 and 258-333
ProcessTemplate ==
    /\ \/ pc = "run"
       \/ pc = "done" /\ outcome \in {"Ok", "Err"} /\ Runs < MaxRuns
    /\ arg.fn = "template"
    /\ pre' = Snapshot
    /\ IF ~arg.found
       THEN /\ ReturnErr
            /\ UNCHANGED <<columns, stages>>
       ELSE /\ columns' = process_template(columns, arg.columns)
            /\ stages' = Append(stages, "process_template")
            /\ pc' = "run_query"
            /\ outcome' = "running"
    /\ UNCHANGED <<wiki, links, sort, sort_ascending, one_row_per_item,
                   sparql_json, sparql_rows, sparql_first_variable, arg, ret,
                   entities, results, local_page_cache, shadow_files, failed,
                   shadow_history, title_history>>

\* run_query up to the answer of the query service, lines 335-350
RunQuery ==
    /\ pc = "run_query"
    /\ pre' = Snapshot
    /\ \/ /\ ReturnErr
          /\ UNCHANGED sparql_json
       \/ /\ sparql_json' \in RunDocuments
          /\ pc' = "parse_sparql"
          /\ outcome' = outcome
    /\ UNCHANGED <<wiki, links, sort, sort_ascending, one_row_per_item,
                   columns, sparql_rows, sparql_first_variable, arg, ret,
                   entities, results, local_page_cache, shadow_files, stages,
                   failed, shadow_history, title_history>>

\* one run of the page
Spec == Init /\ [][Next]_vars

\* run() invoked on one page object up to MaxRuns times
SpecRuns ==
    InitRuns /\ [][ProcessTemplate \/ RunQuery \/ ParseSparql \/ Next]_vars

\* one run of the page and then the renderers, in any order and number
SpecRender == InitRender /\ [][Next \/ AsWikitext \/ AsTabbedData]_vars

\* one run of the page from the query-result document on
SpecRows == InitRows /\ [][ParseSparql \/ Next]_vars

\* one call of new_from_json, Column::new, generate_label or a renderer of a
\* part or a cell
SpecFn ==
    InitFn /\ [][\/ NewFromJson \/ ColumnNew \/ GenerateLabel
                 \/ PartAsWikitext \/ PartAsTabbedData
                 \/ CellAsWikitext \/ CellAsTabbedData]_vars

\* one run of a page through every stage that changes the rows
SpecStages == InitStages /\ [][Next]_vars

\* one run of a page under each sort mode and order
SpecSort == InitSort /\ [][Next]_vars

\* patch_remove_shadow_files called once more right after it has returned
RemoveShadowAgain == pc = "sort" /\ shadow_runs = 1 /\ RemoveShadow("sort")

\* one run of the page with the shadow-file stage run twice in a row
SpecShadowTwice == Init /\ [][Next \/ RemoveShadowAgain]_vars

-----------------------------------------------------------------------------
(* Helpers of the properties *)

StageOrder ==
    <<"gather", "redlinks_only", "local_links", "redlinks", "shadow", "sort">>

\* the stage that has just run
LastStage == IF stages = <<>> THEN "" ELSE stages[Len(stages)]

\* every part of a list of parts, those inside a SnakList included
RECURSIVE DeepParts(_)
DeepParts(parts) ==
    IF parts = <<>> THEN {}
    ELSE {Head(parts)}
         \cup (IF Head(parts).t = "SnakList" THEN DeepParts(Head(parts).v)
               ELSE {})
         \cup DeepParts(Tail(parts))

\* every part of every cell of the rows, at any depth
AllDeepParts(rows) ==
    UNION {DeepParts(AllCells(rows)[c]) : c \in 1..Len(AllCells(rows))}

-----------------------------------------------------------------------------
(* C1: the patch stages run in the order gather, redlinks-only filter,      *)
(* localize, redlinks cache warm, shadow-file removal, sort; a stage starts *)
(* only when every earlier stage has returned Ok; once a stage has returned *)
(* Err no later stage runs and run() returns the error.                     *)
C1_StagesInOrder ==
    /\ Len(stages) <= Len(StageOrder)
    /\ stages = SubSeq(StageOrder, 1, Len(stages))
    /\ \A i \in 1..Len(stages) :
          stages[i] \in failed =>
              i = Len(stages) /\ pc = "done" /\ outcome = "Err"
    /\ (pc # "done" /\ pc \in Range(StageOrder)) =>
          /\ outcome = "running"
          /\ failed = {}
          /\ Append(stages, pc) = SubSeq(StageOrder, 1, Len(stages) + 1)
    /\ (outcome = "Err" /\ stages # <<>>) => LastStage \in failed
    /\ outcome = "Ok" => stages = StageOrder /\ failed = {}

\* a run in which all six stages have returned Ok
C1_Witness == pc = "done" /\ outcome = "Ok" /\ stages = StageOrder

\* a run in which the first stage has returned Err
C1_FailureReached == failed = {"gather"} /\ outcome = "Err"

-----------------------------------------------------------------------------
(* C2: shadow-file removal is idempotent: run a second time right after    *)
(* the first, under the same answers of the wiki, it leaves the rows and   *)
(* the shadow-file list as the first run left them.                        *)
C2_ShadowRemovalIdempotent ==
    (shadow_runs = 2 /\ LastStage = "shadow") =>
        results = pre.results /\ shadow_files = pre.shadow_files

-----------------------------------------------------------------------------
(* C3: a failed existence lookup does not abort the run; a file whose      *)
(* lookup failed stays in its cell and is not put on the shadow-file list; *)
(* a title whose lookup failed is reported missing by local_page_exists.   *)
C3_FailedLookupInconclusive ==
    /\ LastStage \in {"redlinks", "shadow"} => outcome = "running"
    /\ \A t \in title_failed : ~local_page_exists(local_page_cache, t)
    /\ LastStage = "shadow" =>
          \A f \in Range(checked) :
              file_answers[f] = "fail" =>
                  /\ f \notin Range(shadow_files)
                  /\ \A r \in 1..Len(results) :
                        \A c \in 1..Len(results[r].cells) :
                            File(f) \in Range(pre.results[r].cells[c]) =>
                                File(f) \in Range(results[r].cells[c])

-----------------------------------------------------------------------------
(* C4: under link-mode red or red_only, after the cache-warm stage with    *)
(* every lookup succeeding, each Entity part left in a cell, at top level  *)
(* or inside a SnakList, whose entity has a label in the working language  *)
(* has that label in the page-existence cache, and no label was looked up  *)
(* twice.                                                                  *)
C4_RedlinkLabelsCached ==
    (links \in {"Red", "RedOnly"} /\ LastStage = "redlinks"
     /\ title_failed = {}) =>
        /\ \A p \in AllDeepParts(results) :
              (p.t = "Entity" /\ get_local_entity_label(p.a, entities) # <<>>) =>
                  get_local_entity_label(p.a, entities)[1]
                      \in DOMAIN local_page_cache
        /\ \A i, j \in 1..Len(lookups) : lookups[i] = lookups[j] => i = j

-----------------------------------------------------------------------------
(* C5: on a wiki of the allow-list, after shadow-file removal every File   *)
(* name occurring in the rows, inside a SnakList too, was checked; no part *)
(* is a File on the shadow-file list; the list holds exactly the checked   *)
(* names not answered as served from the shared repository; every other    *)
(* part keeps its value and place.                                         *)
C5_ShadowFilesRemoved ==
    (wiki \in wikis_to_check_for_shadow_images /\ LastStage = "shadow") =>
        /\ \A p \in AllDeepParts(pre.results) :
              p.t = "File" => p.a \in Range(checked)
        /\ \A p \in AllDeepParts(results) :
              ~(p.t = "File" /\ p.a \in Range(shadow_files))
        /\ Range(shadow_files) =
              {f \in Range(checked) : file_answers[f] # "shared"}
        /\ Len(results) = Len(pre.results)
        /\ \A r \in 1..Len(results) :
              /\ results[r].entity_id = pre.results[r].entity_id
              /\ Len(results[r].cells) = Len(pre.results[r].cells)
              /\ \A c \in 1..Len(results[r].cells) :
                    results[r].cells[c] =
                        FilterSeq(pre.results[r].cells[c],
                            {q \in Range(pre.results[r].cells[c]) :
                                ~(q.t = "File" /\ q.a \in Range(shadow_files))})

-----------------------------------------------------------------------------
(* C6: under link-mode red_only the redlinks-only filter returns normally  *)
(* for every row collection of the result model and leaves exactly the     *)
(* rows whose entity has no sitelink on the wiki, in their order.          *)
C6_RedlinksOnlyFilter ==
    (links = "RedOnly" /\ LastStage = "redlinks_only") =>
        /\ outcome # "panic"
        /\ results =
              FilterSeq(pre.results,
                  {row \in Range(pre.results) :
                      LocalPage(row.entity_id, wiki) = <<>>})

-----------------------------------------------------------------------------
(* C7: the localize stage turns an Entity part with try_localize set, at   *)
(* any depth, into LocalLink(page, label) exactly when the entity is held  *)
(* and has a sitelink on the wiki, the label being the entity's label in   *)
(* the working language or else the page title; every other part, and the  *)
(* number and order of rows, cells and parts, each row's entity id,        *)
(* section and sortkey, stay as they were.                                 *)
RECURSIVE Localized(_, _)
Localized(old, new) ==
    /\ Len(new) = Len(old)
    /\ \A i \in 1..Len(old) :
          IF old[i].t = "Entity" /\ old[i].b = "true" /\ old[i].a \in entities
             /\ LocalPage(old[i].a, wiki) # <<>>
          THEN /\ new[i].t = "LocalLink"
               /\ new[i].a = LocalPage(old[i].a, wiki)[1]
               /\ new[i].b = (IF label_in_locale(old[i].a, language) # <<>>
                              THEN label_in_locale(old[i].a, language)[1]
                              ELSE LocalPage(old[i].a, wiki)[1])
               /\ new[i].v = <<>>
          ELSE IF old[i].t = "SnakList"
          THEN /\ new[i].t = "SnakList" /\ new[i].a = "" /\ new[i].b = ""
               /\ Localized(old[i].v, new[i].v)
          ELSE new[i] = old[i]

C7_LocalizeItemLinks ==
    LastStage = "local_links" =>
        /\ Len(results) = Len(pre.results)
        /\ \A r \in 1..Len(results) :
              /\ results[r].entity_id = pre.results[r].entity_id
              /\ results[r].section = pre.results[r].section
              /\ results[r].sortkey = pre.results[r].sortkey
              /\ Len(results[r].cells) = Len(pre.results[r].cells)
              /\ \A c \in 1..Len(results[r].cells) :
                    Localized(pre.results[r].cells[c], results[r].cells[c])

\* the stage has rewritten an Entity inside a SnakList, has given a link of
\* an entity without label the page title as label, and has left an Entity alone
C7_Witness ==
    /\ LastStage = "local_links"
    /\ \E p \in AllDeepParts(results) :
          p.t = "SnakList" /\ \E i \in 1..Len(p.v) : p.v[i].t = "LocalLink"
    /\ LocalLink("D", "D") \in AllDeepParts(results)
    /\ \E p \in AllDeepParts(results) : p.t = "Entity"

-----------------------------------------------------------------------------
(* Helpers of the sort properties *)

\* the rows as they come out of the sort stage in ascending order
Ascending == patch_sort_results(pre.results, sort, TRUE, entities)

\* two rows neither of which sorts before the other
EqualKey(a, b) ==
    /\ ~compare_to(a, b, SortDatatype(sort, entities))
    /\ ~compare_to(b, a, SortDatatype(sort, entities))

\* the maximal runs of rows of equal key, in order
RECURSIVE Blocks(_)
Blocks(rows) ==
    IF rows = <<>> THEN <<>>
    ELSE LET rest == Blocks(Tail(rows))
         IN IF rest # <<>> /\ EqualKey(Head(rows), Head(rest)[1])
            THEN <<<<Head(rows)>> \o Head(rest)>> \o Tail(rest)
            ELSE <<<<Head(rows)>>>> \o rest

\* a row without its sortkey
Strip(row) == [row EXCEPT !.sortkey = ""]

\* how often a row occurs in the rows, sortkeys set aside
Count(rows, row) ==
    Cardinality({i \in 1..Len(rows) : Strip(rows[i]) = Strip(row)})

\* the place of the row of an entity among the rows before the stage
PrePos(id) == CHOOSE k \in 1..Len(pre.results) : pre.results[k].entity_id = id

-----------------------------------------------------------------------------
(* C8 as stated: under every sort mode the rows of a descending run are    *)
(* the ascending result with its blocks of equal key in reversed order,    *)
(* the rows inside a block keeping the order of the ascending result.      *)
C8_BlocksReversedInnerKept ==
    (LastStage = "sort" /\ ~sort_ascending) =>
        results = Flatten(Reverse(Blocks(Ascending)))

(* C8: under sort modes label, family name and property the rows of a      *)
(* descending run are the ascending result with its blocks of equal key in *)
(* reversed order and the rows inside each block in reversed order too;    *)
(* under sort mode none a descending run leaves the rows as the ascending  *)
(* run does.                                                               *)
C8_BlocksReversedInnerReversed ==
    (LastStage = "sort" /\ ~sort_ascending) =>
        IF sort.t = "None" THEN results = Ascending
        ELSE results =
                 Flatten(Reverse([b \in 1..Len(Blocks(Ascending)) |->
                                     Reverse(Blocks(Ascending)[b])]))

\* a descending run has met two blocks, one of them holding two rows
C8_Witness ==
    /\ LastStage = "sort" /\ ~sort_ascending /\ sort.t # "None"
    /\ Len(Blocks(Ascending)) = 2
    /\ Len(results) = 3
    /\ results # Flatten(Reverse(Blocks(Ascending)))

-----------------------------------------------------------------------------
(* C9: under a sort mode other than none with descending order the rows    *)
(* after the sort stage are the reverse, element by element, of the rows   *)
(* the same input gives in ascending order.                                *)
C9_DescendingIsReverse ==
    (LastStage = "sort" /\ ~sort_ascending /\ sort.t # "None") =>
        /\ Len(results) = Len(Ascending)
        /\ \A i \in 1..Len(results) :
              results[i] = Ascending[Len(Ascending) + 1 - i]

\* a descending run over three rows, two of them of equal key, that the
\* ascending sort had to reorder
C9_Witness ==
    /\ LastStage = "sort" /\ ~sort_ascending /\ sort.t = "Property"
    /\ Len(results) = 3
    /\ \E i, j \in 1..3 : i # j /\ EqualKey(results[i], results[j])
    /\ Ascending # set_sortkeys(pre.results,
                                SortKeys(pre.results, sort, entities))

-----------------------------------------------------------------------------
(* C10: under sort modes label, family name and property in ascending      *)
(* order the rows after the sort stage are a permutation of the rows       *)
(* before it, each row carries the sortkey computed for it, no row sorts   *)
(* before an earlier row under the comparison of the selected datatype,    *)
(* rows of empty sortkey come first, and rows of equal key keep their      *)
(* input order.                                                            *)
C10_AscendingSort ==
    (LastStage = "sort" /\ sort_ascending /\ sort.t # "None") =>
        /\ Len(results) = Len(pre.results)
        /\ \A i \in 1..Len(results) :
              /\ Count(results, results[i]) = Count(pre.results, results[i])
              /\ results[i].sortkey =
                     SortKeys(<<results[i]>>, sort, entities)[1]
        /\ \A i, j \in 1..Len(results) :
              i < j =>
                  /\ ~compare_to(results[j], results[i],
                                 SortDatatype(sort, entities))
                  /\ results[j].sortkey = "" => results[i].sortkey = ""
                  /\ EqualKey(results[i], results[j]) =>
                         PrePos(results[i].entity_id)
                             < PrePos(results[j].entity_id)

\* times 2001, 1999, 2020 have come out as 1999, 2001, 2020
C10_Witness ==
    /\ LastStage = "sort" /\ sort_ascending
    /\ sort = SortMode("Property", "P3")
    /\ [i \in 1..Len(pre.results) |-> pre.results[i].entity_id]
           = <<"Q1", "Q2", "Q3">>
    /\ [i \in 1..Len(results) |-> results[i].sortkey]
           = <<"+1999", "+2001", "+2020">>

\* rows of equal key and a row without key have been sorted by label
C10_TiesReached ==
    /\ LastStage = "sort" /\ sort_ascending /\ sort.t = "Label"
    /\ [i \in 1..Len(pre.results) |-> pre.results[i].entity_id]
           = <<"Q3", "Q4", "Q2">>
    /\ [i \in 1..Len(results) |-> results[i].entity_id]
           = <<"Q4", "Q3", "Q2">>

-----------------------------------------------------------------------------
(* Helpers of the properties of the result model *)

\* the entity ids the binding rows of the document bind the first declared
\* variable to, row by row in the order of the document
DocPrimaryIds(doc) ==
    LET bs == doc.bindings.items
        first == doc.head_vars.items[1].s
    IN Flatten([i \in 1..Len(bs) |->
           IF /\ first \in DOMAIN bs[i].members
              /\ new_from_json(bs[i].members[first]) # None
              /\ new_from_json(bs[i].members[first])[1].t = "Entity"
           THEN <<Str(new_from_json(bs[i].members[first])[1].a)>>
           ELSE <<>>])

\* the number of result rows of an entity
CountRows(e) == Cardinality({r \in 1..Len(results) : results[r].entity_id = e})

\* the result model has just been built
ResultsBuilt == pc = "gather"

-----------------------------------------------------------------------------
(* C11: with one row per source entity, every entity the binding rows bind *)
(* the primary variable to has exactly one result row (none when link-mode *)
(* local excludes it), whatever the bindings and columns are, also when    *)
(* the entity's id is the id of a property column.                         *)
C11_OneRowPerEntity ==
    (ResultsBuilt /\ one_row_per_item) =>
        \A e \in Range(DocPrimaryIds(sparql_json)) :
            CountRows(e) = IF links = "Local" /\ e \notin entities THEN 0 ELSE 1

\* the entity ids of the result rows, in the order of the result model
ResultIds == [r \in 1..Len(results) |-> results[r].entity_id]

\* the ids of a sequence that link-mode local leaves in the result model
InStore(ids) ==
    LET keep == {e \in Range(ids) : links # "Local" \/ e \in entities}
    IN FilterSeq(ids, keep)

-----------------------------------------------------------------------------
(* C12, as stated: with one row per binding row, the result rows are exactly *)
(* one row for each binding row that binds the primary variable to an entity, *)
(* in the order of the document and without deduplication.                  *)
C12_RowPerBindingRow ==
    (ResultsBuilt /\ ~one_row_per_item) =>
        ResultIds = DocPrimaryIds(sparql_json)

(* C12, amended: with one row per binding row, the result rows are, in the  *)
(* order of the document and without deduplication, one row for each        *)
(* binding row that binds the primary variable to an entity, except that    *)
(* under link-mode local a binding row whose entity is not in the loaded    *)
(* entity store produces no row.                                            *)
C12_RowPerBindingRowInStore ==
    (ResultsBuilt /\ ~one_row_per_item) =>
        ResultIds = InStore(DocPrimaryIds(sparql_json))

\* two binding rows of the same entity have given two result rows
C12_Witness ==
    /\ ResultsBuilt /\ ~one_row_per_item
    /\ DocPrimaryIds(sparql_json) = <<"Q1", "Q1">>
    /\ ResultIds = <<"Q1", "Q1">>
    /\ Len(sparql_json.bindings.items) = 2

\* the document has been parsed and no binding row of it binds the primary
\* variable to an entity
NoItemToShow ==
    /\ pc # "parse_sparql"
    /\ parse_sparql(sparql_json).result = "Ok"
    /\ DocPrimaryIds(sparql_json) = <<>>

-----------------------------------------------------------------------------
(* C13: when no binding row binds the primary variable to an entity, the run *)
(* aborts with an error at the loading of the entities and never goes on to *)
(* build and render an empty list, whatever the columns are.                *)
C13_NoItemsAborts ==
    NoItemToShow =>
        \/ pc = "load_entities"
        \/ pc = "done" /\ outcome = "Err" /\ stages = <<>>

-----------------------------------------------------------------------------
(* C14: under link-mode local the result model holds a row for a primary    *)
(* entity exactly when the entity is in the loaded entity store; under every *)
(* other link-mode the row is built whether the entity is in the store or   *)
(* not. No row is built for anything but a primary entity.                  *)
C14_LocalNeedsStore ==
    ResultsBuilt =>
        /\ \A e \in Range(DocPrimaryIds(sparql_json)) :
               (CountRows(e) > 0) <=> (links = "Local" => e \in entities)
        /\ Range(ResultIds) \subseteq Range(DocPrimaryIds(sparql_json))

\* under link-mode local, of two primary entities the one in the store has a
\* row and the one that is not in the store has none
C14_Witness ==
    /\ ResultsBuilt /\ links = "Local"
    /\ DocPrimaryIds(sparql_json) = <<"Q1", "Q5">>
    /\ "Q1" \in entities /\ "Q5" \notin entities
    /\ ResultIds = <<"Q1">>

\* the query-result document is malformed: no list of variables, an empty
\* one or one whose first element is no string; no array of bindings; a
\* binding row that is no object; a bound value that cannot be classified
Malformed(doc) ==
    \/ doc.head_vars.kind # "array"
    \/ doc.head_vars.items = <<>>
    \/ doc.head_vars.items[1].kind # "string"
    \/ doc.bindings.kind # "array"
    \/ \E i \in 1..Len(doc.bindings.items) :
          \/ doc.bindings.items[i].kind # "object"
          \/ \E k \in DOMAIN doc.bindings.items[i].members :
                new_from_json(doc.bindings.items[i].members[k]) = None

-----------------------------------------------------------------------------
(* C15: on a malformed query-result document parse_sparql returns an error  *)
(* value: the run ends with that error, parse_sparql neither panics nor     *)
(* returns success.                                                         *)
C15_MalformedIsError ==
    (pc # "parse_sparql" /\ Malformed(sparql_json)) =>
        (pc = "done" /\ outcome = "Err")

-----------------------------------------------------------------------------
(* Helpers of the properties of the classification of bound values *)

\* a decimal numeral: an optional minus sign, digits, and optionally a point
\* followed by digits
IsNumeral(cs) ==
    LET body == IF cs # <<>> /\ Head(cs) = "-" THEN Tail(cs) ELSE cs
        points == {i \in 1..Len(body) : body[i] = "."}
    IN /\ body # <<>>
       /\ AllIn(body, Digits \cup {"."})
       /\ Cardinality(points) <= 1
       /\ \A i \in points : 1 < i /\ i < Len(body)

\* the number a decimal numeral writes
NumeralValue(cs) ==
    LET neg == Head(cs) = "-"
        body == IF neg THEN Tail(cs) ELSE cs
        whole == SelectSeq(body, LAMBDA c : c # ".")
        points == {i \in 1..Len(body) : body[i] = "."}
        decimals == IF points = {} THEN 0
                    ELSE Len(body) - (CHOOSE i \in points : TRUE)
    IN F64(neg, DigitsValue(whole), decimals)

\* the text is Point(a b), a and b two numerals: <<a, b>>, or None
PointNumerals(value) ==
    LET n == Len(value)
        spaces == {i \in 1..n : value[i] = " "}
    IN IF /\ n >= 4 /\ value[1] = "Point(" /\ value[n] = ")"
          /\ Cardinality(spaces) = 1
          /\ \A i \in spaces : /\ IsNumeral(SubSeq(value, 2, i - 1))
                                /\ IsNumeral(SubSeq(value, i + 1, n - 1))
       THEN LET i == CHOOSE k \in spaces : TRUE
            IN Some(<<SubSeq(value, 2, i - 1), SubSeq(value, i + 1, n - 1)>>)
       ELSE None

\* r is the classification the triple j is to have
Classified(j, r) ==
    IF j.value = None THEN r = None
    ELSE IF j.type = Some("uri")
    THEN IF RE_ENTITY(j.value[1]) # None
         THEN r = Some(SparqlValue("Entity", RE_ENTITY(j.value[1])[1]))
         ELSE IF RE_FILE(j.value[1]) # None
         THEN /\ r # None
              /\ r[1].t = "File"
              /\ LET name == urlencoding_decode(RE_FILE(j.value[1])[1])
                 IN name # None => r[1].a = replace_underscores(name[1])
         ELSE r = Some(SparqlValue("Uri", j.value[1]))
    ELSE IF j.type = Some("literal") /\ j.datatype = Some(WktLiteral)
    THEN LET ab == PointNumerals(j.value[1])
         IN IF ab = None THEN r = None
            ELSE r = Some(SparqlValue("Location",
                             [lon |-> NumeralValue(ab[1][1]),
                              lat |-> NumeralValue(ab[1][2])]))
    ELSE IF j.type = Some("literal") /\ j.datatype = Some(DateTime)
    THEN r = Some(SparqlValue("Time", j.value[1]))
    ELSE IF j.type = Some("literal") /\ j.datatype = None
    THEN r = Some(SparqlValue("Literal", j.value[1]))
    ELSE r = None

(* C16: new_from_json classifies a bound value by its type, value and       *)
(* datatype: a uri of the entity path is Entity(id), a uri of the file path *)
(* is File(name, percent-decoded, underscores as spaces), any other uri is  *)
(* Uri; a WKT literal Point(a b) is Location with lon = a and lat = b; a    *)
(* dateTime literal is Time; a literal without datatype is Literal; every   *)
(* other triple is None.                                                    *)
C16_Classification ==
    (pc = "done" /\ arg.fn = "new_from_json") => Classified(arg.j, ret)

-----------------------------------------------------------------------------
(* Helpers of the properties of the column resolver *)

\* Column::new has been called on the text arg.s and has returned ret
ColumnResolved == pc = "done" /\ arg.fn = "Column::new"

\* the place of the first ':' of a text that has one
FirstSeparator(s) ==
    CHOOSE k \in 1..Len(s) : s[k] = ":" /\ \A m \in 1..(k - 1) : s[m] # ":"

(* C17: on a text with a ':' Column::new resolves the text left of the      *)
(* first ':' (trimmed) to the variant and takes the text right of it        *)
(* (trimmed) as the label; on a text without ':' the whole trimmed text     *)
(* gives both the variant and the label.                                    *)
C17_SplitAtFirstSeparator ==
    ColumnResolved =>
        IF ":" \in Range(arg.s)
        THEN LET c == FirstSeparator(arg.s)
             IN /\ ret.obj = ColumnType_new(trim(SubSeq(arg.s, 1, c - 1)))
                /\ ret.label = trim(SubSeq(arg.s, c + 1, Len(arg.s)))
        ELSE /\ ret.obj = ColumnType_new(trim(arg.s))
             /\ ret.label = trim(arg.s)

\* the key is of one of the forms of the grammar: a keyword, label/<lang>,
\* a property, property/qualifier, property/item/property, ?field
InGrammar(key) ==
    \/ to_lowercase(key) \in {<<"number">>, <<"label">>, <<"description">>,
                               <<"item">>}
    \/ RE_LABEL_LANG(key) # None
    \/ RE_PROPERTY(key) # None
    \/ RE_PROP_QUAL(key) # None
    \/ RE_PROP_QUAL_VAL(key) # None
    \/ RE_FIELD(key) # None

\* the text left and the text right of the first ':', trimmed
LeftOfSeparator(s) == trim(SubSeq(s, 1, FirstSeparator(s) - 1))
RightOfSeparator(s) == trim(SubSeq(s, FirstSeparator(s) + 1, Len(s)))

\* the text has no ':', and the whole of it is the key
Unseparated(s) == ":" \notin Range(s)

\* the text is key:label, its first ':' between two texts that are not blank
Separated(s) ==
    /\ ":" \in Range(s)
    /\ LeftOfSeparator(s) # <<>>
    /\ RightOfSeparator(s) # <<>>

\* the key of the text is of none of the forms of the grammar
OutsideGrammar(s) ==
    \/ Unseparated(s) /\ ~InGrammar(trim(s))
    \/ Separated(s) /\ ~InGrammar(LeftOfSeparator(s))

Unknown == TextColumnType("Unknown", <<>>, <<>>, <<>>)

-----------------------------------------------------------------------------
(* C18, as stated: a text of none of the forms of the grammar resolves to   *)
(* the Unknown descriptor, and its label is the original text.              *)
C18_UnknownKeepsInput ==
    (ColumnResolved /\ OutsideGrammar(arg.s)) =>
        (ret.obj = Unknown /\ ret.label = arg.s)

(* C18, amended: a text whose key (the trimmed text left of the first ':'   *)
(* when that ':' stands between two texts that are not blank, the whole     *)
(* trimmed text when there is no ':') is of none of the forms of the        *)
(* grammar resolves to the Unknown descriptor; its label is the trimmed     *)
(* text right of that ':' in the first case and the trimmed text in the     *)
(* second.                                                                  *)
C18_UnknownKeepsLabel ==
    (ColumnResolved /\ OutsideGrammar(arg.s)) =>
        /\ ret.obj = Unknown
        /\ ret.label = IF Separated(arg.s) THEN RightOfSeparator(arg.s)
                       ELSE trim(arg.s)

\* a text with a key outside the grammar and a label of its own has resolved
\* to Unknown under that label
C18_Witness ==
    /\ ColumnResolved
    /\ arg.s = <<"instance", ":", "of", ":", "x">>
    /\ ret.obj = Unknown
    /\ ret.label = <<"of", ":", "x">>

\* the key of a text that is a key alone or key:label
KeyOf(s) == IF Separated(s) THEN LeftOfSeparator(s) ELSE trim(s)

\* the key is of the property grammar, in any letter case
PropertyGrammar(key) ==
    \/ RE_PROPERTY(key) # None
    \/ RE_PROP_QUAL(key) # None
    \/ RE_PROP_QUAL_VAL(key) # None

\* the identifiers of a descriptor, in order
IdsOf(obj) ==
    CASE obj.t = "Property" -> <<obj.a>>
      [] obj.t = "PropertyQualifier" -> <<obj.a, obj.b>>
      [] obj.t = "PropertyQualifierValue" -> <<obj.a, obj.b, obj.c>>
      [] OTHER -> <<>>

\* the identifiers of a descriptor written back in the form of the grammar
WrittenBack(obj) ==
    CASE obj.t = "PropertyQualifier" -> obj.a \o <<"/">> \o obj.b
      [] obj.t = "PropertyQualifierValue" ->
             obj.a \o <<"/">> \o obj.b \o <<"/">> \o obj.c
      [] OTHER -> obj.a

LowerLetters == {"p", "q", "x"}

-----------------------------------------------------------------------------
(* C19: a text of the property grammar (P1, P1/P2, P1/Q2/P3, in any letter  *)
(* case) resolves to a property descriptor all of whose identifiers are     *)
(* uppercase; resolving the text again, and resolving the identifiers of    *)
(* the descriptor written back in the form of the grammar, give the same    *)
(* descriptor.                                                              *)
C19_UppercaseAndStable ==
    (/\ ColumnResolved
     /\ Unseparated(arg.s) \/ Separated(arg.s)
     /\ PropertyGrammar(KeyOf(arg.s))) =>
        /\ ret.obj.t \in {"Property", "PropertyQualifier",
                          "PropertyQualifierValue"}
        /\ \A i \in 1..Len(IdsOf(ret.obj)) :
              /\ IdsOf(ret.obj)[i][1] \in UpperLetters
              /\ Range(IdsOf(ret.obj)[i]) \cap LowerLetters = {}
        /\ Column_new(arg.s).obj = ret.obj
        /\ ColumnType_new(KeyOf(arg.s)) = ret.obj
        /\ ColumnType_new(WrittenBack(ret.obj)) = ret.obj

\* a qualifier column written in lowercase with blanks has resolved to its
\* uppercase identifiers
C19_Witness ==
    /\ ColumnResolved
    /\ arg.s = <<"p", "1", " ", "/", " ", "p", "2">>
    /\ ret.obj = TextColumnType("PropertyQualifier", <<"P", "1">>, <<"P", "2">>,
                                <<>>)

-----------------------------------------------------------------------------
(* Helpers of the property of the labels of the columns *)

\* the label of an identifier in the working language when the store holds
\* one, else the identifier itself
LabelOrId(id) ==
    IF id \in entities /\ label_in_locale(id, language) # <<>>
    THEN label_in_locale(id, language)[1] ELSE id

\* the labels of identifiers, in order, with a '/' between two of them
RECURSIVE JoinedLabels(_)
JoinedLabels(ids) ==
    IF Len(ids) = 1 THEN <<LabelOrId(ids[1])>>
    ELSE <<LabelOrId(ids[1]), "/">> \o JoinedLabels(Tail(ids))

(* C20: generate_label gives a Property column the label of the property in *)
(* the working language, or the identifier when the store has none; it      *)
(* gives a compound column the labels of each of its identifiers, in order, *)
(* joined with '/'; a column that is not property-based keeps its label.    *)
C20_LabelsOfOwnIdentifiers ==
    (pc = "done" /\ arg.fn = "generate_label") =>
        /\ ret.obj = arg.col.obj
        /\ ret.label = IF IdsOf(arg.col.obj) = <<>> THEN arg.col.label
                       ELSE JoinedLabels(IdsOf(arg.col.obj))

-----------------------------------------------------------------------------
(* C21: the text as_tabbed_data returns for a part holds no newline and no  *)
(* tab and is never longer than the cap of 380 characters, whatever the     *)
(* part and the length of its text are.                                     *)
C21_CappedAndSanitized ==
    (pc = "done" /\ arg.fn = "part::as_tabbed_data") =>
        /\ "\n" \notin Range(ret)
        /\ "\t" \notin Range(ret)
        /\ Len(ret) <= TabbedCap

-----------------------------------------------------------------------------
(* Helpers of the properties of the renderer *)

\* the texts one after the other, each but the first behind a "<br/>"
Separated_by_br(texts) ==
    Flatten([i \in 1..Len(texts) |->
        (IF i > 1 THEN <<"<br/>">> ELSE <<>>) \o texts[i]])

(* C25: a cell renders as the renderings of its parts, in order, joined by  *)
(* "<br/>", in both strategies; a cell without parts renders as the empty   *)
(* string, which in the structured data is a JSON string and never null.    *)
C25_CellJoinsParts ==
    /\ (pc = "done" /\ arg.fn = "cell::as_wikitext") =>
           ret = Separated_by_br([i \in 1..Len(arg.parts) |->
                     part_as_wikitext(arg.parts[i], list, arg.rownum)])
    /\ (pc = "done" /\ arg.fn = "cell::as_tabbed_data") =>
           /\ ret.kind = "string"
           /\ ret.s = Separated_by_br([i \in 1..Len(arg.parts) |->
                          part_as_tabbed_data(arg.parts[i], list, arg.rownum)])
           /\ arg.parts = <<>> => ret.s = <<>>

\* a cell without parts has rendered as the empty JSON string, and a cell
\* of two parts as the two renderings around one "<br/>"
C25_Witness ==
    /\ pc = "done" /\ arg.fn = "cell::as_tabbed_data"
    /\ \/ arg.parts = <<>> /\ ret = JsonString(<<>>)
       \/ /\ arg.parts = <<File("F1"), Text("a\nc")>>
          /\ Len(SelectSeq(ret.s, LAMBDA c : c = "<br/>")) = 1

\* the italic link to the entity on the repository, shown as text
EntityLink(id, text) ==
    <<"''[[:d:">> \o TextOf(id) \o <<"|">> \o text \o <<"]]''">>

\* the plain link to the local page of that title
PlainLink(text) == <<"[[">> \o text \o <<"]]">>

\* the external cross-reference link
ReasonatorLink(id, text) ==
    <<"[https://reasonator.toolforge.org/?q=">> \o TextOf(id) \o <<" ">>
    \o text \o <<"]">>

\* an entity reference has been rendered on its own
EntityRendered ==
    /\ pc = "done" /\ arg.fn = "part::as_wikitext" /\ arg.part.t = "Entity"

\* the label of the rendered entity in the working language, if any
RenderedLabel == get_local_entity_label(arg.part.a, entities)

(* C23: an entity reference with tryLocalize set and a label renders per    *)
(* link mode: text gives the label; red and red_only give [[label]] if and  *)
(* only if no local page of that title exists and the labelled entity link  *)
(* otherwise; reasonator gives the external link; local gives the label as  *)
(* a plain link; all gives the labelled entity link. Without a label,       *)
(* without the entity or with tryLocalize unset it renders as the entity    *)
(* link labelled with the bare identifier.                                  *)
C23_EntityPerLinkMode ==
    EntityRendered =>
        IF arg.part.b = "true" /\ RenderedLabel # None
        THEN LET label == TextOf(RenderedLabel[1])
             IN CASE links = "Text" -> ret = label
                  [] links \in {"Red", "RedOnly"} ->
                         /\ ret \in {PlainLink(label),
                                      EntityLink(arg.part.a, label)}
                         /\ ret = PlainLink(label)
                                <=> ~local_page_exists(local_page_cache,
                                                       RenderedLabel[1])
                  [] links = "Reasonator" ->
                         ret = ReasonatorLink(arg.part.a, label)
                  [] links = "Local" -> ret = PlainLink(label)
                  [] links = "All" -> ret = EntityLink(arg.part.a, label)
        ELSE ret = EntityLink(arg.part.a, TextOf(arg.part.a))

\* the lines of a text: its pieces between the line feeds
RECURSIVE Lines(_)
Lines(text) ==
    IF "\n" \notin Range(text) THEN <<text>>
    ELSE LET n == CHOOSE i \in 1..Len(text) :
                      text[i] = "\n" /\ \A j \in 1..(i - 1) : text[j] # "\n"
         IN <<SubSeq(text, 1, n - 1)>> \o Lines(SubSeq(text, n + 1, Len(text)))

\* the header cells read back from the markup: the lines that open with the
\* header mark, without the mark
HeaderCells(text) ==
    LET ls == Lines(text)
        hs == FilterSeq(ls, {ls[i] : i \in {j \in 1..Len(ls) :
                                ls[j] # <<>> /\ ls[j][1] = "! "}})
    IN [i \in 1..Len(hs) |-> Tail(hs[i])]

\* the tabular markup has been rendered
TabularRendered == pc = "done" /\ ret.fn = "as_wikitext"

(* C22: the header cells read back from the rendered tabular markup are     *)
(* exactly the labels of the columns, one per column and in column order,   *)
(* for every finalized run, whatever the number of rows and the settings.   *)
C22_HeaderRoundTrip ==
    TabularRendered =>
        HeaderCells(ret.wt) = [c \in 1..Len(columns) |-> column_label(columns[c])]

\* the structured data has been rendered
DataRendered == pc = "done" /\ ret.fn = "as_tabbed_data"

\* the renderings of the rows of the collection, in collection order, each
\* numbered by its place, with the row separator between two of them
RowsInOrder ==
    Flatten([i \in 1..Len(results) |->
        (IF i = 1 THEN <<>>
         ELSE IF arg.skip_table THEN <<"\n">> ELSE <<"\n|-\n">>)
        \o row_as_wikitext(results[i], list, arg, i - 1)])

\* the length of what a block holds before its first row
BeforeRows ==
    Len(as_wikitext_table_header(columns, arg))
    + (IF arg.row_template = None /\ ~arg.skip_table THEN 2 ELSE 0)

\* how often an atom occurs in a text
Occurrences(text, atom) == Cardinality({i \in 1..Len(text) : text[i] = atom})

(* C24: both renderers emit the rows of the finalized collection in         *)
(* collection order, each row once: the tabular renderer right after the    *)
(* header of the block, the structured-data renderer as the data records;   *)
(* and rendering changes neither the rows, nor the shadow-file list, nor    *)
(* the page-existence cache.                                                *)
C24_RowsInCollectionOrder ==
    /\ (TabularRendered /\ results # <<>>) =>
           /\ SubSeq(ret.wt, BeforeRows + 1, BeforeRows + Len(RowsInOrder))
                 = RowsInOrder
           /\ IF arg.row_template = None
              THEN Occurrences(ret.wt, "| ") = Len(results) * Len(columns)
              ELSE Occurrences(ret.wt, arg.row_template[1]) = Len(results)
    /\ (TabularRendered /\ results = <<>>) =>
           /\ Occurrences(ret.wt, "| ") = 0
           /\ Occurrences(ret.wt, "R") = 0
    /\ DataRendered =>
           /\ Len(ret.json.data) = Len(results)
           /\ \A i \in 1..Len(results) :
                 ret.json.data[i] = row_as_tabbed_data(results[i], list, i - 1)
    /\ (TabularRendered \/ DataRendered) =>
           /\ results = pre.results
           /\ shadow_files = pre.shadow_files
           /\ local_page_cache = pre.local_page_cache

\* the tabular markup of two rows that differ has been rendered
C24_Witness ==
    /\ TabularRendered
    /\ Len(results) = 2
    /\ results[1].cells # results[2].cells
    /\ arg.row_template = None /\ ~arg.skip_table

(* C26: the page-existence cache is an append-only mapping keyed by         *)
(* normalized title: every title is stored under its normalized form, and   *)
(* an entry, once made, is neither changed nor removed by a later step.     *)
C26_CacheKeyedByNormalizedTitle ==
    /\ \A title \in DOMAIN local_page_cache :
          TextOf(title) = normalize_page_title(title)
    /\ \A title \in DOMAIN pre.local_page_cache :
          /\ title \in DOMAIN local_page_cache
          /\ local_page_cache[title] = pre.local_page_cache[title]

\* the no-op guard of the stage that has just run applies
GuardApplies ==
    \/ LastStage = "redlinks_only" /\ links # "RedOnly"
    \/ LastStage = "redlinks" /\ links \notin {"Red", "RedOnly"}
    \/ LastStage = "shadow" /\ wiki \notin wikis_to_check_for_shadow_images
    \/ LastStage = "sort" /\ sort.t = "None"

(* C27: a stage whose no-op guard applies leaves the row collection (rows,  *)
(* order, cells, parts, sortkeys), the page-existence cache and the         *)
(* shadow-file list unchanged and returns success: the redlinks-only filter *)
(* when the link mode is not red_only, the redlinks cache warm when it is   *)
(* neither red nor red_only, shadow-file removal when the wiki is not in    *)
(* the allow-list, and the sort stage under sort mode none, whatever the    *)
(* sort order is.                                                           *)
C27_GuardedStageIsNoOp ==
    GuardApplies =>
        /\ results = pre.results
        /\ local_page_cache = pre.local_page_cache
        /\ shadow_files = pre.shadow_files
        /\ outcome \in {"running", "Ok"}
        /\ pc = StageAfter(LastStage)

\* the sort stage has run under mode none and descending order over two rows
C27_Witness ==
    /\ LastStage = "sort" /\ sort.t = "None" /\ ~sort_ascending
    /\ Len(results) >= 2
    /\ results = pre.results
    /\ outcome = "Ok"

\* the place at which an id first occurs in a list that holds it
FirstPlace(ids, e) ==
    CHOOSE i \in 1..Len(ids) : ids[i] = e /\ \A j \in 1..(i - 1) : ids[j] # e

(* C28: with one row per source entity the result rows appear in the order  *)
(* in which their entities first occur as the primary variable in the       *)
(* binding rows: a row never stands behind a row whose entity first occurs  *)
(* later in the document.                                                   *)
C28_FirstOccurrenceOrder ==
    (ResultsBuilt /\ one_row_per_item) =>
        /\ Range(ResultIds) \subseteq Range(DocPrimaryIds(sparql_json))
        /\ \A i, j \in 1..Len(results) :
              i < j => FirstPlace(DocPrimaryIds(sparql_json), ResultIds[i])
                       <= FirstPlace(DocPrimaryIds(sparql_json), ResultIds[j])

\* the rows are those before the last step, each with the cells it has now
SameRowsButParts ==
    /\ Len(results) = Len(pre.results)
    /\ \A r \in 1..Len(results) :
          /\ results[r] = [pre.results[r] EXCEPT !.cells = results[r].cells]
          /\ Len(results[r].cells) = Len(pre.results[r].cells)

\* the rows are those before the last step in some order, each with the
\* sortkey it has now
SameRowsButOrderAndKeys ==
    \E f \in Permutations(1..Len(pre.results)) :
        /\ Len(results) = Len(pre.results)
        /\ \A r \in 1..Len(results) :
              results[r] = [pre.results[f[r]] EXCEPT !.sortkey = results[r].sortkey]

(* C30: from the result model to the end of the pipeline every row has     *)
(* exactly one cell per column; no stage adds a row or changes the entity  *)
(* id of a row, only the redlinks-only filter removes rows, only           *)
(* localization and shadow-file removal change parts, and only the sort    *)
(* stage writes sortkeys or reorders rows.                                 *)
C30_RowsThroughThePipeline ==
    /\ \A r \in 1..Len(results) : Len(results[r].cells) = Len(columns)
    /\ CASE LastStage \in {"gather", "redlinks"} -> results = pre.results
         [] LastStage = "redlinks_only" ->
                results = FilterSeq(pre.results, Range(results))
         [] LastStage \in {"local_links", "shadow"} -> SameRowsButParts
         [] LastStage = "sort" -> SameRowsButOrderAndKeys
         [] OTHER -> TRUE

\* the run has ended after the filter removed a row, localization rewrote a
\* part and the sort stage wrote the sortkeys and reordered the rows
C30_Witness ==
    /\ pc = "done" /\ outcome = "Ok" /\ LastStage = "sort"
    /\ Len(results) = 2
    /\ results[1].entity_id = pre.results[2].entity_id
    /\ results[1].entity_id # results[2].entity_id
    /\ results[1].sortkey # ""

\* the entries of the columns parameter of the template
ColumnEntries ==
    IF arg.columns = None THEN <<<<"item">>>> ELSE Split(arg.columns[1], ",")

(* C29: after any number of invocations of run() on one page object the     *)
(* column descriptor list holds exactly one descriptor per comma-separated  *)
(* entry of the columns parameter (or the single default item column), in   *)
(* order: descriptors are not accumulated across invocations.               *)
C29_ColumnsNotAccumulated ==
    Runs >= 1 =>
        /\ Len(columns) = Len(ColumnEntries)
        /\ \A i \in 1..Len(ColumnEntries) :
              columns[i] = InternColumn(Column_new(ColumnEntries[i]))

====
